---- MODULE Spec2Model ----
(***************************************************************************)
(* Model of the rave protocol stack: the RTSP incremental parser and the   *)
(* tokio codec (rave_rtsp), the RTSP client dialogue, the RTP header codec *)
(* and the H.264 packetizer/depacketizer (rave_rtp), and the SDP model     *)
(* (rave_sdp).  Text and wire data are sequences of byte values.           *)
(***************************************************************************)
EXTENDS Integers, Sequences, FiniteSets, TLC

VARIABLES
    \* --- RTSP parser / codec and the byte stream fed to it
    expected,     \* the items whose serializations make up the stream
    stream,       \* the bytes of the stream
    delivered,    \* number of bytes of the stream appended to the buffer so far
    buffer,       \* the read buffer (BytesMut): bytes appended and not yet consumed
    parser,       \* Parser<M>: state, metadata, headers, body
    codec,        \* Codec<T>: state and the interleaved parser's channel_and_size
    output,       \* the items obtained by the caller so far
    lastStatus,   \* result of the last parse / decode call
    pending,      \* a chunk was appended and the caller has not yet parsed it
    doneAt,       \* bytes of the stream consumed at each Done, in order
    split,        \* the stream arrived in more than one chunk
    \* --- H.264 packetizer and depacketizer
    mode,         \* packetization mode: 0 single NAL unit, 1 non-interleaved
    mtu,          \* the MTU of the packetization parameters
    seqNo,        \* Packetizer.sequence_number
    au,           \* the access unit given to packetize
    auTimestamp,  \* the timestamp given to packetize
    pktResult,    \* "None" before the call, then "Ok", the error, or "Panic"
    packets,      \* the packets packetize returned
    fragBuf,      \* H264Depacketizer.fragmented_unit_buffer
    fed,          \* number of packets given to depacketize so far
    nals,         \* the NAL units depacketize returned, over all calls
    depResult,    \* "None", or "Ok" / the error of the last depacketize call
    \* --- RTSP client and the server it talks to
    self_uri,     \* Client.uri: scheme, authority and path-and-query
    sequencer,    \* Client.sequencer.sequence_number
    session,      \* Client.session
    wire,         \* the requests written to the connection, in order
    inbound,      \* items the server has sent and the client has not yet read
    answered,     \* number of requests the server has answered
    redirects,    \* number of 3xx replies the server has given
    peerClosed,   \* the server has closed the connection
    writeBroken,  \* a write on the connection has failed
    phase,        \* "Idle", or where the running call stands: "Send" / "Read"
    callMethod,   \* the method of the running (or last) call
    request_count,\* the loop variable of Client::request
    sentInCall,   \* requests written by the running (or last) call
    calls,        \* number of calls made
    result,       \* "None" while a call runs, then "Ok" or the error of the call
    response,     \* the response the call returned in Ok or in Status
    \* --- RTP header serialization and parsing
    rtpHeader,    \* the Header given to serialize
    rtpTrailer,   \* the bytes that follow the header in the buffer given to parse
    rtpStep,      \* "new", "serialized", "parsed"
    rtpBytes,     \* dst after Header::serialize
    rtpSerialized,\* "None", then "Ok" or the error of Header::serialize
    rtpParsed,    \* None, then the result of Header::parse: [err, header]
    rtpRest,      \* src after Header::parse
    \* --- SDP display and parsing
    sdpModel,     \* Some(the Sdp displayed), None when a text is parsed as it is
    sdpText,      \* the text given to Sdp::parse
    sdpPhase,     \* "new", "text", "parsing", "parsed"
    sdpLines,     \* the lines Sdp::parse has not read yet
    sdpFields,    \* the local variables of Sdp::parse
    sdpResult,    \* "None", then "Ok" or the error of Sdp::parse
    sdpParsed,    \* None, or Some(the Sdp returned)
    \* --- one Packetizer over several packetize calls
    pzMode,       \* packetization mode of the H264Packetizer
    pzMtu,        \* the MTU of its packetization parameters
    pzSeq,        \* Packetizer.sequence_number
    pzInitial,    \* the sequence number Packetizer::new drew
    pzReturned,   \* per call, the sequence numbers of the packets it returned
    pzFailed,     \* some call so far returned an error
    \* --- SDP Builder and its add_media calls
    builderInput, \* the arguments the caller gives to add_media
    builderMedia, \* Builder.sdp.media
    builderCounter, \* Builder.dynamic_payload_type_counter
    builderCalls, \* number of add_media calls made
    builderResult, \* "None", then "Ok", the error, or "Panic" of the last call
    \* --- RTP packet serialization with and without padding
    pdPacket,     \* the Packet (header, payload) the caller built
    pdDivisor,    \* Some(padding_divisor) once with_padding was called
    pdStep,       \* "new", "serialized", "parsed"
    pdBytes,      \* dst after serialize
    pdResult,     \* "None", then "Ok", the error, or "Panic" of serialize
    pdParsed,     \* None, then the result of Packet::parse: [err, packet]
    \* --- H264PacketizerMode1::packetize, step by step
    m1Data,       \* the NAL units of the access unit given to packetize
    m1Mtu,        \* Some(mtu) or None, H264PacketizerMode1.mtu
    m1Seq,        \* Packetizer.sequence_number
    m1Groups,     \* None, then Some(the groups group_nal_units returned)
    m1Done,       \* number of groups the loop has turned into packets
    m1Packets,    \* per group, the packets built from it
    m1Result,     \* "None" while the call runs, then "Ok", the error, or "Panic"
    \* --- split_nals_annex_b (rave_h264)
    abInput,      \* the data given to split_nals_annex_b
    abData,       \* the local data: what is left to split
    abNals,       \* the local nals
    abState,      \* "Called", "Looping", "Returned" or "Panicked"
    abResult      \* "None", or "Ok" / the error returned

rtspVars == <<expected, stream, delivered, buffer, parser, codec, output, lastStatus,
              pending, doneAt, split>>

h264Vars == <<mode, mtu, seqNo, au, auTimestamp, pktResult, packets, fragBuf, fed, nals, depResult>>

clientVars == <<self_uri, sequencer, session, wire, inbound, answered, redirects, peerClosed,
                writeBroken, phase, callMethod, request_count, sentInCall, calls, result,
                response>>

rtpVars == <<rtpHeader, rtpTrailer, rtpStep, rtpBytes, rtpSerialized, rtpParsed, rtpRest>>

sdpVars == <<sdpModel, sdpText, sdpPhase, sdpLines, sdpFields, sdpResult, sdpParsed>>

packetizerVars == <<pzMode, pzMtu, pzSeq, pzInitial, pzReturned, pzFailed>>

builderVars == <<builderInput, builderMedia, builderCounter, builderCalls, builderResult>>

paddedVars == <<pdPacket, pdDivisor, pdStep, pdBytes, pdResult, pdParsed>>

mode1Vars == <<m1Data, m1Mtu, m1Seq, m1Groups, m1Done, m1Packets, m1Result>>

annexbVars == <<abInput, abData, abNals, abState, abResult>>

vars == <<rtspVars, h264Vars, clientVars, rtpVars, sdpVars,
          packetizerVars,
          builderVars,
          paddedVars,
          mode1Vars,
          annexbVars>>

\* Each specification below runs one part of the library; the variables of the other
\* parts rest at these values.
RtspIdle ==
    /\ expected = <<>> /\ stream = <<>> /\ delivered = 0 /\ buffer = <<>>
    /\ parser = <<>> /\ codec = <<>> /\ output = <<>> /\ lastStatus = "None"
    /\ pending = FALSE /\ doneAt = <<>> /\ split = FALSE
H264Idle ==
    /\ mode = 0 /\ mtu = 0 /\ seqNo = 0 /\ au = <<>> /\ auTimestamp = 0
    /\ pktResult = "None"
    /\ packets = <<>> /\ fragBuf = <<>> /\ fed = 0 /\ nals = <<>> /\ depResult = "None"
ClientIdle ==
    /\ self_uri = <<>> /\ sequencer = 0 /\ session = <<>> /\ wire = <<>> /\ inbound = <<>>
    /\ answered = 0 /\ redirects = 0 /\ peerClosed = FALSE /\ writeBroken = FALSE
    /\ phase = "Idle" /\ callMethod = "" /\ request_count = 0 /\ sentInCall = 0
    /\ calls = 0 /\ result = "None" /\ response = <<>>
RtpIdle ==
    /\ rtpHeader = <<>> /\ rtpTrailer = <<>> /\ rtpStep = "new" /\ rtpBytes = <<>>
    /\ rtpSerialized = "None" /\ rtpParsed = <<>> /\ rtpRest = <<>>
SdpIdle ==
    /\ sdpModel = <<>> /\ sdpText = <<>> /\ sdpPhase = "new" /\ sdpLines = <<>>
    /\ sdpFields = <<>> /\ sdpResult = "None" /\ sdpParsed = <<>>
PacketizerIdle ==
    /\ pzMode = 0
    /\ pzMtu = 0
    /\ pzSeq = 0
    /\ pzInitial = 0
    /\ pzReturned = <<>>
    /\ pzFailed = FALSE
BuilderIdle ==
    /\ builderInput = <<>>
    /\ builderMedia = <<>>
    /\ builderCounter = 0
    /\ builderCalls = 0
    /\ builderResult = "None"
PaddedIdle ==
    /\ pdPacket = <<>>
    /\ pdDivisor = <<>>
    /\ pdStep = "new"
    /\ pdBytes = <<>>
    /\ pdResult = "None"
    /\ pdParsed = <<>>
Mode1Idle ==
    /\ m1Data = <<>>
    /\ m1Mtu = <<>>
    /\ m1Seq = 0
    /\ m1Groups = <<>>
    /\ m1Done = 0
    /\ m1Packets = <<>>
    /\ m1Result = "None"
AnnexBIdle ==
    /\ abInput = <<>>
    /\ abData = <<>>
    /\ abNals = <<>>
    /\ abState = "Idle"
    /\ abResult = "None"
IdleExcept(part) ==
    /\ IF part = "rtsp" THEN TRUE ELSE RtspIdle
    /\ IF part = "h264" THEN TRUE ELSE H264Idle
    /\ IF part = "client" THEN TRUE ELSE ClientIdle
    /\ IF part = "rtp" THEN TRUE ELSE RtpIdle
    /\ IF part = "sdp" THEN TRUE ELSE SdpIdle
    /\ IF part = "packetizer" THEN TRUE ELSE PacketizerIdle
    /\ IF part = "builder" THEN TRUE ELSE BuilderIdle
    /\ IF part = "padded" THEN TRUE ELSE PaddedIdle
    /\ IF part = "mode1" THEN TRUE ELSE Mode1Idle
    /\ IF part = "annexb" THEN TRUE ELSE AnnexBIdle
UnchangedExcept(part) ==
    /\ IF part = "rtsp" THEN TRUE ELSE UNCHANGED rtspVars
    /\ IF part = "h264" THEN TRUE ELSE UNCHANGED h264Vars
    /\ IF part = "client" THEN TRUE ELSE UNCHANGED clientVars
    /\ IF part = "rtp" THEN TRUE ELSE UNCHANGED rtpVars
    /\ IF part = "sdp" THEN TRUE ELSE UNCHANGED sdpVars
    /\ IF part = "packetizer" THEN TRUE ELSE UNCHANGED packetizerVars
    /\ IF part = "builder" THEN TRUE ELSE UNCHANGED builderVars
    /\ IF part = "padded" THEN TRUE ELSE UNCHANGED paddedVars
    /\ IF part = "mode1" THEN TRUE ELSE UNCHANGED mode1Vars
    /\ IF part = "annexb" THEN TRUE ELSE UNCHANGED annexbVars

-----------------------------------------------------------------------------
(* Bounds of the model.                                                    *)

\* number of items concatenated in one stream
MaxItems == 2
\* a chunk holds 1..MaxChunk bytes, or all the bytes still to come
MaxChunk == 3
\* NAL units in one access unit, and bytes in one NAL unit
MaxNals == 3
MaxNalLen == 7
\* the MTU ranges from the RTP header length up to MaxMtu
MaxMtu == 20
\* calls made on one client, and 3xx replies of the unconstrained server
MaxCalls == 2
MaxRedirectReplies == 2
\* CSRC identifiers in a header, and 32-bit words in a header extension
MaxCsrc == 16
MaxExtensionWords == 2

-----------------------------------------------------------------------------------------------------------------------------------------------------
(* Generic helpers on byte strings.  Let binds a value once: operators that *)
(* use an argument several times bind it first.                             *)

Let(e, Body(_)) == CHOOSE y \in {Body(x) : x \in {e}} : TRUE
Let2(e1, e2, Body(_, _)) == CHOOSE y \in {Body(x1, x2) : x1 \in {e1}, x2 \in {e2}} : TRUE

None == <<>>
Some(x) == <<x>>
IsSome(o) == Len(o) = 1
Unwrap(o) == o[1]

RECURSIVE Concat(_)
Concat(ss) ==
    Let(ss, LAMBDA v : IF v = <<>> THEN <<>> ELSE Head(v) \o Concat(Tail(v)))

Drop(s, n) == Let2(s, n, LAMBDA v, k : SubSeq(v, k + 1, Len(v)))
Take(s, n) == SubSeq(s, 1, n)

\* str::trim: strip leading and trailing white space (space, TAB, LF, VT, FF, CR)
IsSpace(b) == b \in {32, 9, 10, 11, 12, 13}
Trim(s) ==
    Let(s, LAMBDA v :
        Let({i \in 1..Len(v) : ~IsSpace(v[i])}, LAMBDA keep :
            IF keep = {} THEN <<>>
            ELSE SubSeq(v, CHOOSE i \in keep : \A j \in keep : i <= j,
                           CHOOSE i \in keep : \A j \in keep : i >= j)))

\* index of the first occurrence of byte b in s, 0 when there is none
IndexOf(s, b) ==
    Let2(s, b, LAMBDA v, c :
        Let({i \in 1..Len(v) : v[i] = c}, LAMBDA at :
            IF at = {} THEN 0 ELSE CHOOSE i \in at : \A j \in at : i <= j))

\* str::split(sep): the parts between the separators (at least one part)
RECURSIVE Split(_, _)
Split(s, sep) ==
    Let2(s, IndexOf(s, sep), LAMBDA v, i :
        IF i = 0 THEN <<v>> ELSE <<Take(v, i - 1)>> \o Split(Drop(v, i), sep))

\* str::split_once(sep): None, or Some(<<before, after>>)
SplitOnce(s, sep) ==
    Let2(s, IndexOf(s, sep), LAMBDA v, i :
        IF i = 0 THEN None ELSE Some(<<Take(v, i - 1), Drop(v, i)>>))

StartsWith(s, p) == Let2(s, p, LAMBDA v, q : Len(v) >= Len(q) /\ Take(v, Len(q)) = q)

\* usize::to_string: decimal digits, no sign, no leading zero
RECURSIVE ToDec(_)
ToDec(n) ==
    Let(n, LAMBDA k : IF k < 10 THEN <<48 + k>> ELSE ToDec(k \div 10) \o <<48 + (k % 10)>>)

\* str::parse::<usize>: an optional '+', then one or more decimal digits
RECURSIVE DecValue(_, _)
DecValue(s, acc) ==
    Let2(s, acc, LAMBDA v, a :
        IF v = <<>> THEN a ELSE DecValue(Tail(v), a * 10 + (v[1] - 48)))
ParseUsize(s) ==
    Let(s, LAMBDA v :
        Let(IF v # <<>> /\ v[1] = 43 THEN Tail(v) ELSE v, LAMBDA d :
            IF d # <<>> /\ \A i \in 1..Len(d) : d[i] \in 48..57
            THEN Some(DecValue(d, 0)) ELSE None))

\* byte-wise lexicographic order of strings (Ord for String)
LexLess(a, b) ==
    \/ \E i \in 1..Len(b) : /\ i <= Len(a) /\ a[i] < b[i]
                            /\ \A j \in 1..(i - 1) : a[j] = b[j]
    \/ Len(a) < Len(b) /\ \A j \in 1..Len(a) : a[j] = b[j]

\* the keys of a BTreeMap in iteration order (ascending)
RECURSIVE SortedKeys(_)
SortedKeys(S) ==
    Let(S, LAMBDA K :
        IF K = {} THEN <<>>
        ELSE Let(CHOOSE x \in K : \A y \in K \ {x} : LexLess(x, y), LAMBDA m :
                 <<m>> \o SortedKeys(K \ {m})))

-----------------------------------------------------------------------------
(* rave_rtsp: messages and their serialization.                            *)

EmptyHeaders == [n \in {} |-> <<>>]
HeadersInsert(h, k, v) == [n \in (DOMAIN h) \cup {k} |-> IF n = k THEN v ELSE h[n]]

H_ContentLength == <<67, 111, 110, 116, 101, 110, 116, 45, 76, 101, 110, 103, 116, 104>>
H_CSeq == <<67, 83, 101, 113>>
H_Session == <<83, 101, 115, 115, 105, 111, 110>>

\* Method as written on the wire
MethodBytes(m) ==
    CASE m = "Describe" -> <<68, 69, 83, 67, 82, 73, 66, 69>>
      [] m = "Announce" -> <<65, 78, 78, 79, 85, 78, 67, 69>>
      [] m = "Setup" -> <<83, 69, 84, 85, 80>>
      [] m = "Play" -> <<80, 76, 65, 89>>
      [] m = "Pause" -> <<80, 65, 85, 83, 69>>
      [] m = "Record" -> <<82, 69, 67, 79, 82, 68>>
      [] m = "Options" -> <<79, 80, 84, 73, 79, 78, 83>>
      [] m = "Redirect" -> <<82, 69, 68, 73, 82, 69, 67, 84>>
      [] m = "Teardown" -> <<84, 69, 65, 82, 68, 79, 87, 78>>
      [] m = "GetParameter" -> <<71, 69, 84, 95, 80, 65, 82, 65, 77, 69, 84, 69, 82>>
      [] m = "SetParameter" -> <<83, 69, 84, 95, 80, 65, 82, 65, 77, 69, 84, 69, 82>>

Methods == {"Describe", "Announce", "Setup", "Play", "Pause", "Record", "Options",
            "Redirect", "Teardown", "GetParameter", "SetParameter"}

\* Method::from_str: None for an unknown method
MethodFromStr(s) ==
    Let({m \in Methods : MethodBytes(m) = s}, LAMBDA ms :
        IF ms = {} THEN None ELSE Some(CHOOSE m \in ms : TRUE))

\* A faulty Serialize for Version: an unknown version is written as RTSP/1.0.
VersionBytesDefaulting(v) ==
    IF v = "V2" THEN Some(<<82, 84, 83, 80, 47, 50, 46, 48>>)
    ELSE Some(<<82, 84, 83, 80, 47, 49, 46, 48>>)

\* Serialize for Version: None stands for Err(VersionUnknown)
VersionBytes(v) ==
    CASE v = "V1" -> Some(<<82, 84, 83, 80, 47, 49, 46, 48>>)
      [] v = "V2" -> Some(<<82, 84, 83, 80, 47, 50, 46, 48>>)
      [] OTHER -> None

\* the header lines, in the order the BTreeMap iterates
HeaderLines(h) ==
    Let2(h, SortedKeys(DOMAIN h), LAMBDA hs, keys :
        Concat([i \in 1..Len(keys) |-> keys[i] \o <<58, 32>> \o hs[keys[i]] \o <<13, 10>>]))

BodyBytes(body) == Let(body, LAMBDA b : IF IsSome(b) THEN Unwrap(b) ELSE <<>>)

\* A message is one record for requests and responses: kind says which fields count.
Request(method, uri, version, headers, body) ==
    [kind |-> "request", method |-> method, uri |-> uri, version |-> version,
     status |-> 0, reason |-> <<>>, headers |-> headers, body |-> body]
Response(version, status, reason, headers, body) ==
    [kind |-> "response", method |-> "", uri |-> <<>>, version |-> version,
     status |-> status, reason |-> reason, headers |-> headers, body |-> body]

\* Serialize for Request / Response: None stands for an error
SerializeMessage(msg) ==
    Let2(msg, VersionBytes(msg.version), LAMBDA m, v :
        IF v = None THEN None
        ELSE Some((IF m.kind = "request"
                   THEN MethodBytes(m.method) \o <<32>> \o m.uri \o <<32>> \o Unwrap(v)
                   ELSE Unwrap(v) \o <<32>> \o ToDec(m.status) \o <<32>> \o m.reason)
                  \o <<13, 10>> \o HeaderLines(m.headers) \o <<13, 10>>
                  \o BodyBytes(m.body)))

-----------------------------------------------------------------------------
(* rave_rtsp: the line reader (buffer.rs).                                  *)

LN == 10
CR == 13

\* A faulty line reader: it also takes a CR in the last byte of the buffer for a line
\* end, so that the LN of a CRLF split over two chunks reads as an empty line.
ReadLineEagerCR(chunk) ==
    Let(chunk, LAMBDA c :
        IF Len(c) = 0 THEN None
        ELSE Let({i \in 1..Len(c) : c[i] = CR \/ c[i] = LN}, LAMBDA at :
                 IF at = {} THEN None
                 ELSE Let(CHOOSE i \in at : \A j \in at : i <= j, LAMBDA i :
                          IF c[i] = CR /\ i < Len(c) /\ c[i + 1] = LN
                          THEN Some([line |-> Take(c, i - 1), rest |-> Drop(c, i + 1)])
                          ELSE Some([line |-> Take(c, i - 1), rest |-> Drop(c, i)]))))

\* A faulty line reader: the cursor always moves one byte past the line, so that the
\* LN of a CRLF is left in the buffer.
ReadLineSkipOne(chunk) ==
    Let(chunk, LAMBDA c :
        IF Len(c) = 0 THEN None
        ELSE Let({i \in 1..(Len(c) - 1) : c[i] = CR \/ c[i] = LN}, LAMBDA at :
                 IF at # {}
                 THEN Let(CHOOSE i \in at : \A j \in at : i <= j, LAMBDA i :
                          Some([line |-> Take(c, i - 1), rest |-> Drop(c, i)]))
                 ELSE IF c[Len(c)] = LN
                      THEN Some([line |-> Take(c, Len(c) - 1), rest |-> <<>>])
                      ELSE None))

\* ReadLine::read_line: None, or Some([line, rest]) with the cursor past the terminator.
\* The loop looks at every byte but the last and stops at the first CR or LN; the last
\* byte terminates only if it is LN.
ReadLine(chunk) ==
    Let(chunk, LAMBDA c :
        IF Len(c) = 0 THEN None
        ELSE Let({i \in 1..(Len(c) - 1) : c[i] = CR \/ c[i] = LN}, LAMBDA at :
                 IF at # {}
                 THEN Let(CHOOSE i \in at : \A j \in at : i <= j, LAMBDA i :
                          IF c[i] = CR /\ c[i + 1] = LN
                          THEN Some([line |-> Take(c, i - 1), rest |-> Drop(c, i + 1)])
                          ELSE Some([line |-> Take(c, i - 1), rest |-> Drop(c, i)]))
                 ELSE IF c[Len(c)] = LN
                      THEN Some([line |-> Take(c, Len(c) - 1), rest |-> <<>>])
                      ELSE None))

\* String::from_utf8 succeeds; the model's heads are ASCII, any other byte is refused
IsUtf8(line) == \A i \in 1..Len(line) : line[i] < 128

-----------------------------------------------------------------------------
(* rave_rtsp: the incremental parser (parse.rs).                            *)

NoMetadata == [method |-> "", uri |-> <<>>, version |-> "", status |-> 0, reason |-> <<>>]

\* Parser::new
NewParser == [state |-> "FirstLine", metadata |-> None, headers |-> EmptyHeaders,
              body |-> None]

\* parse_version: None stands for Err(VersionMalformed)
ParseVersion(part) ==
    Let(part, LAMBDA s :
        IF StartsWith(s, <<82, 84, 83, 80, 47>>)
        THEN Let(Drop(s, 5), LAMBDA v :
                 Some(IF v = <<49, 46, 48>> THEN "V1"
                      ELSE IF v = <<50, 46, 48>> THEN "V2" ELSE "Unknown"))
        ELSE None)

\* str::parse::<Uri> of the http crate succeeds (non-empty, printable ASCII)
UriParses(s) == s # <<>> /\ \A i \in 1..Len(s) : s[i] \in 33..126
\* uri.authority().is_some(): scheme "://" host
UriHasAuthority(s) ==
    \E i \in 2..Len(s) : /\ i + 3 <= Len(s)
                         /\ SubSeq(s, i, i + 2) = <<58, 47, 47>>
                         /\ s[i + 3] # 47
                         /\ \A j \in 1..(i - 1) : s[j] \notin {58, 47}

\* Parse for RequestMetadata
ParseRequestMetadata(line) ==
    Let(Split(line, 32), LAMBDA parts :
        Let(MethodFromStr(parts[1]), LAMBDA method :
            IF method = None THEN [err |-> "MethodUnknown", md |-> NoMetadata]
            ELSE IF Len(parts) < 2 THEN [err |-> "UriMissing", md |-> NoMetadata]
            ELSE IF ~UriParses(parts[2]) THEN [err |-> "UriMalformed", md |-> NoMetadata]
            ELSE IF ~(UriHasAuthority(parts[2]) \/ parts[2] = <<42>>)
                 THEN [err |-> "UriNotAbsolute", md |-> NoMetadata]
            ELSE IF Len(parts) < 3 THEN [err |-> "VersionMissing", md |-> NoMetadata]
            ELSE Let(ParseVersion(parts[3]), LAMBDA version :
                     IF version = None THEN [err |-> "VersionMalformed", md |-> NoMetadata]
                     ELSE [err |-> "",
                           md |-> [method |-> Unwrap(method), uri |-> parts[2],
                                   version |-> Unwrap(version),
                                   status |-> 0, reason |-> <<>>]])))

\* Parse for ResponseMetadata
ParseResponseMetadata(line) ==
    Let(SplitOnce(line, 32), LAMBDA a :
        IF a = None THEN [err |-> "StatusCodeMissing", md |-> NoMetadata]
        ELSE Let2(ParseVersion(Trim(Unwrap(a)[1])), SplitOnce(Unwrap(a)[2], 32),
                  LAMBDA version, b :
                 IF version = None THEN [err |-> "VersionMalformed", md |-> NoMetadata]
                 ELSE IF b = None THEN [err |-> "ReasonPhraseMissing", md |-> NoMetadata]
                 ELSE Let(ParseUsize(Trim(Unwrap(b)[1])), LAMBDA code :
                          IF code = None
                          THEN [err |-> "StatusCodeNotInteger", md |-> NoMetadata]
                          ELSE [err |-> "",
                                md |-> [method |-> "", uri |-> <<>>,
                                        version |-> Unwrap(version),
                                        status |-> Unwrap(code),
                                        reason |-> Trim(Unwrap(b)[2])]])))

\* Parser::parse_metadata for Parser<Request> / Parser<Response>
ParseMetadata(kind, line) ==
    IF kind = "request" THEN ParseRequestMetadata(line) ELSE ParseResponseMetadata(line)

\* A faulty parse_header: it keeps the space that follows the colon in the value.
ParseHeaderUntrimmed(line) ==
    Let(SplitOnce(line, 58), LAMBDA kv :
        IF kv = None THEN None ELSE Some(<<Trim(Unwrap(kv)[1]), Unwrap(kv)[2]>>))

\* parse_header: None stands for Err(HeaderMalformed)
ParseHeader(line) ==
    Let(SplitOnce(line, 58), LAMBDA kv :
        IF kv = None THEN None ELSE Some(<<Trim(Unwrap(kv)[1]), Trim(Unwrap(kv)[2])>>))

\* Parser::parse_inner_head_line: the parser's metadata / headers after the line, the
\* next head state, or the error
ParseInnerHeadLine(p, kind, rawline, head) ==
    Let(Trim(rawline), LAMBDA line :
        CASE head = "FirstLine" ->
               Let(ParseMetadata(kind, line), LAMBDA r :
                   IF r.err # "" THEN [p |-> p, head |-> head, err |-> r.err]
                   ELSE [p |-> [p EXCEPT !.metadata = Some(r.md)], head |-> "Header",
                         err |-> ""])
          [] head = "Header" ->
               IF line # <<>>
               THEN Let(ParseHeader(line), LAMBDA kv :
                        IF kv = None
                        THEN [p |-> p, head |-> head, err |-> "HeaderMalformed"]
                        ELSE [p |-> [p EXCEPT !.headers =
                                        HeadersInsert(@, Unwrap(kv)[1], Unwrap(kv)[2])],
                              head |-> "Header", err |-> ""])
               ELSE [p |-> p, head |-> "Done", err |-> ""]
          [] OTHER -> [p |-> p, head |-> head, err |-> "HeadAlreadyDone"])

\* Parser::parse_inner_head: read lines until the head is done or no line is available
RECURSIVE ParseInnerHead(_, _, _, _)
ParseInnerHead(p, kind, buf, head) ==
    IF head = "Done" THEN [p |-> p, buf |-> buf, head |-> head, err |-> ""]
    ELSE Let(ReadLine(buf), LAMBDA l :
             IF l = None THEN [p |-> p, buf |-> buf, head |-> head, err |-> ""]
             ELSE IF ~IsUtf8(Unwrap(l).line)
                  THEN [p |-> p, buf |-> Unwrap(l).rest, head |-> head, err |-> "Encoding"]
             ELSE Let(ParseInnerHeadLine(p, kind, Unwrap(l).line, head), LAMBDA r :
                      IF r.err # ""
                      THEN [p |-> r.p, buf |-> Unwrap(l).rest, head |-> head,
                            err |-> r.err]
                      ELSE ParseInnerHead(r.p, kind, Unwrap(l).rest, r.head)))

\* A faulty parser: it never expects a body.
HaveContentLengthNever(p) == FALSE

\* Parser::have_content_length
HaveContentLength(p) == H_ContentLength \in DOMAIN p.headers

\* Parser::parse_inner: one step of the state machine (p.state is the next state);
\* again tells parse_loop to run another step at once
ParseInner(p, kind, buf) ==
    CASE p.state \in {"FirstLine", "Header"} ->
           Let(ParseInnerHead(p, kind, buf, p.state), LAMBDA r :
               IF r.err # ""
               THEN [p |-> r.p, buf |-> r.buf, again |-> FALSE, err |-> r.err]
               ELSE IF r.head = "Done"
                    THEN IF HaveContentLength(r.p)
                         THEN [p |-> [r.p EXCEPT !.state = "Incomplete"], buf |-> r.buf,
                               again |-> TRUE, err |-> ""]
                         ELSE [p |-> [r.p EXCEPT !.state = "Complete"], buf |-> r.buf,
                               again |-> FALSE, err |-> ""]
                    ELSE [p |-> [r.p EXCEPT !.state = r.head], buf |-> r.buf,
                          again |-> FALSE, err |-> ""])
      [] p.state = "Incomplete" ->
           IF ~HaveContentLength(p)
           THEN [p |-> p, buf |-> buf, again |-> FALSE, err |-> "ContentLengthMissing"]
           ELSE Let(ParseUsize(p.headers[H_ContentLength]), LAMBDA need :
                    IF need = None
                    THEN [p |-> p, buf |-> buf, again |-> FALSE,
                          err |-> "ContentLengthNotInteger"]
                    ELSE IF Len(buf) >= Unwrap(need)
                         THEN [p |-> [p EXCEPT !.body = Some(Take(buf, Unwrap(need))),
                                                !.state = "Complete"],
                               buf |-> Drop(buf, Unwrap(need)), again |-> FALSE,
                               err |-> ""]
                         ELSE [p |-> p, buf |-> buf, again |-> FALSE, err |-> ""])
      [] OTHER -> [p |-> p, buf |-> buf, again |-> FALSE, err |-> "BodyAlreadyDone"]

\* A faulty parse_loop: a finished parser answers Done again without looking at the buffer.
RECURSIVE ParseLoopLenient(_, _, _)
ParseLoopLenient(p, kind, buf) ==
    IF p.state = "Complete"
    THEN [p |-> p, buf |-> buf, again |-> FALSE, err |-> ""]
    ELSE Let(ParseInner(p, kind, buf), LAMBDA r :
             IF r.err = "" /\ r.again THEN ParseLoopLenient(r.p, kind, r.buf) ELSE r)

\* Parser::parse_loop
RECURSIVE ParseLoop(_, _, _)
ParseLoop(p, kind, buf) ==
    Let(ParseInner(p, kind, buf), LAMBDA r :
        IF r.err = "" /\ r.again THEN ParseLoop(r.p, kind, r.buf) ELSE r)

\* Parser::parse: the parser and the buffer after the call, and Hungry, Done or the error
ParserParse(p, kind, buf) ==
    Let(ParseLoop(p, kind, buf), LAMBDA r :
        [parser |-> r.p, buffer |-> r.buf,
         result |-> IF r.err # "" THEN r.err
                    ELSE IF r.p.state = "Complete" THEN "Done" ELSE "Hungry"])

\* Parser::into_message: None stands for Err(NotDone) / Err(MetadataNotParsed)
IntoMessage(p, kind) ==
    IF p.state = "Complete" /\ IsSome(p.metadata)
    THEN Let(Unwrap(p.metadata), LAMBDA md :
             Some([kind |-> kind, method |-> md.method, uri |-> md.uri,
                   version |-> md.version, status |-> md.status, reason |-> md.reason,
                   headers |-> p.headers, body |-> p.body]))
    ELSE None

-----
(* rave_rtsp: interleaved frames (interleaved.rs) and the codec (tokio.rs). *)

MAGIC == 36

Interleaved(channel, payload) ==
    [kind |-> "interleaved", channel |-> channel, payload |-> payload]

\* A faulty serialize: the payload length is cast to u16, not checked.
SerializeItemTruncating(item) ==
    Let(item, LAMBDA it :
        IF it.kind = "interleaved"
        THEN Some(<<MAGIC, it.channel, (Len(it.payload) % 65536) \div 256,
                    Len(it.payload) % 256>> \o it.payload)
        ELSE SerializeMessage(it))

\* Serialize for MaybeInterleaved: None stands for an error
SerializeItem(item) ==
    Let(item, LAMBDA it :
        IF it.kind = "interleaved"
        THEN IF Len(it.payload) > 65535 THEN None
             ELSE Some(<<MAGIC, it.channel, Len(it.payload) \div 256,
                         Len(it.payload) % 256>> \o it.payload)
        ELSE SerializeMessage(it))

\* what serialize has put into dst by the time it returns its error: a request has
\* written method, URI and the two spaces when version.serialize fails, a response
\* nothing, a frame the magic byte and the channel when the length does not fit
WrittenBeforeError(item) ==
    Let(item, LAMBDA it :
        IF it.kind = "interleaved" THEN <<MAGIC, it.channel>>
        ELSE IF it.kind = "request"
        THEN MethodBytes(it.method) \o <<32>> \o it.uri \o <<32>>
        ELSE <<>>)

\* item.serialize(&mut dst): dst after the call and the error ("" for Ok)
SerializeInto(dst, item) ==
    Let(SerializeItem(item), LAMBDA written :
        IF IsSome(written) THEN [dst |-> dst \o Unwrap(written), err |-> ""]
        ELSE [dst |-> dst \o WrittenBeforeError(item),
              err |-> IF item.kind = "interleaved" THEN "InterleavedPayloadTooLarge"
                      ELSE "VersionUnknown"])

\* InterleavedParser::parse: cs is channel_and_size; item is None (nothing yet) or Some
RECURSIVE InterleavedParse(_, _)
InterleavedParse(cs, buf) ==
    IF IsSome(cs)
    THEN Let(Unwrap(cs)[2], LAMBDA size :
             IF Len(buf) >= size
             THEN [cs |-> cs, buf |-> Drop(buf, size), err |-> "",
                   item |-> Some(Interleaved(Unwrap(cs)[1], Take(buf, size)))]
             ELSE [cs |-> cs, buf |-> buf, err |-> "", item |-> None])
    ELSE IF Len(buf) >= 4
         THEN IF buf[1] # MAGIC
              THEN [cs |-> cs, buf |-> buf, err |-> "InterleavedInvalid", item |-> None]
              ELSE Let2(Some(<<buf[2], buf[3] * 256 + buf[4]>>), Drop(buf, 4),
                        LAMBDA cs2, rest : InterleavedParse(cs2, rest))
         ELSE [cs |-> cs, buf |-> buf, err |-> "", item |-> None]

\* Codec::new
NewCodec == [state |-> "Init", iparser |-> None]

\* A faulty codec: it takes the message branch whatever the first byte is.
CodecBranchMessage(first) == "ParseMessage"

\* the branch Codec::decode takes in Init, decided by the first buffered byte
CodecBranch(first) == IF first = MAGIC THEN "ParseInterleaved" ELSE "ParseMessage"

\* Codec::decode: the codec, its message parser and the buffer after the call, the item
\* (None or Some) and the error ("" for Ok)
CodecDecode(c, p, kind, buf) ==
    IF c.state = "Init" /\ buf = <<>>
    THEN [codec |-> c, parser |-> p, buf |-> buf, item |-> None, err |-> ""]
    ELSE Let(IF c.state = "Init" THEN CodecBranch(buf[1]) ELSE c.state, LAMBDA st :
             IF st = "ParseMessage"
             THEN Let(ParserParse(p, kind, buf), LAMBDA r :
                      IF r.result = "Done"
                      THEN Let(IntoMessage(r.parser, kind), LAMBDA msg :
                               [codec |-> [c EXCEPT !.state = "Init"], parser |-> NewParser,
                                buf |-> r.buffer, item |-> msg,
                                err |-> IF msg = None THEN "MetadataNotParsed" ELSE ""])
                      ELSE [codec |-> [c EXCEPT !.state = st], parser |-> r.parser,
                            buf |-> r.buffer, item |-> None,
                            err |-> IF r.result = "Hungry" THEN "" ELSE r.result])
             ELSE Let(InterleavedParse(c.iparser, buf), LAMBDA r :
                      IF r.err # ""
                      THEN [codec |-> [state |-> st, iparser |-> r.cs], parser |-> p,
                            buf |-> r.buf, item |-> None, err |-> r.err]
                      ELSE IF IsSome(r.item)
                           THEN [codec |-> NewCodec, parser |-> p, buf |-> r.buf,
                                 item |-> r.item, err |-> ""]
                           ELSE [codec |-> [state |-> st, iparser |-> r.cs], parser |-> p,
                                 buf |-> r.buf, item |-> None, err |-> ""]))

-----------------------------------------------------------------------------
(* The streams fed to the parser and to the codec.                          *)

\* Requests and responses as the constructors build them: a body comes with its
\* Content-Length (ResponseBuilder::with_body).
WithBody(m, body) ==
    [m EXCEPT !.headers = HeadersInsert(@, H_ContentLength, ToDec(Len(body))),
              !.body = Some(body)]

ReqOptions ==
    Request("Options", <<114, 116, 115, 112, 58, 47, 47, 104, 47, 109>>, "V1",
            HeadersInsert(EmptyHeaders, H_CSeq, <<49>>), None)
ReqPlay ==
    WithBody(Request("Play", <<114, 116, 115, 112, 58, 47, 47, 104, 47, 115>>, "V2",
                     HeadersInsert(HeadersInsert(EmptyHeaders, H_CSeq, <<50>>),
                                   H_Session, <<97, 58, 98>>), None),
             <<13, 10, 36>>)
ReqSetup == WithBody(Request("Setup", <<42>>, "V1", EmptyHeaders, None), <<>>)
RespOk ==
    Response("V1", 200, <<79, 75>>, HeadersInsert(EmptyHeaders, H_CSeq, <<49>>), None)
RespBody == WithBody(Response("V2", 200, <<79, 75>>, EmptyHeaders, None), <<36, 13>>)
FrameEmpty == Interleaved(0, <<>>)
FrameData == Interleaved(1, <<36, 13, 10>>)

RequestItems == {ReqOptions, ReqPlay, ReqSetup}
ResponseItems == {RespOk, RespBody}
FrameItems == {FrameEmpty, FrameData}

\* all sequences of 1..MaxItems elements of S
SeqsUpTo(S) == UNION {[1..n -> S] : n \in 1..MaxItems}

StreamOf(items) ==
    Let(items, LAMBDA its : Concat([i \in 1..Len(its) |-> Unwrap(SerializeItem(its[i]))]))

\* offset in the stream of the last byte of the first n items
EndOffset(items, n) == Len(StreamOf(SubSeq(items, 1, n)))

\* the parser a stream is meant for: Parser<Request> or Parser<Response>
KindOf(items) ==
    IF \E i \in 1..Len(items) : items[i].kind = "request" THEN "request" ELSE "response"

-----------------------------------------------------------------------------
(* Feeding a stream to Parser::parse (the callers of parse.rs, tests 516-757) *)
(* and to Codec::decode (FramedRead).                                       *)

InitFeed(streams) ==
    /\ expected \in streams
    /\ stream = StreamOf(expected)
    /\ delivered = 0
    /\ buffer = <<>>
    /\ parser = NewParser
    /\ codec = NewCodec
    /\ output = <<>>
    /\ lastStatus = "None"
    /\ pending = FALSE
    /\ doneAt = <<>>
    /\ split = FALSE

\* buffer.extend_from_slice(chunk): the next n bytes of the stream arrive
Extend(n) ==
    /\ ~pending
    /\ delivered < Len(stream)
    /\ n <= Len(stream) - delivered
    /\ buffer' = buffer \o SubSeq(stream, delivered + 1, delivered + n)
    /\ delivered' = delivered + n
    /\ pending' = TRUE
    /\ split' = (delivered > 0)
    /\ UNCHANGED <<expected, stream, parser, codec, output, lastStatus, doneAt>>
    /\ UnchangedExcept("rtsp")

AppendChunk == \E n \in (1..MaxChunk) \cup {Len(stream) - delivered} : Extend(n)

\* if parser.parse(&mut buffer)? == Done { out.push(parser.into_message()?);
\*                                          parser = Parser::new() }
CallParse ==
    \E kind \in {KindOf(expected)} : \E r \in {ParserParse(parser, kind, buffer)} :
        /\ buffer' = r.buffer
        /\ lastStatus' = r.result
        /\ pending' = FALSE
        /\ IF r.result = "Done"
           THEN /\ output' = Append(output, Unwrap(IntoMessage(r.parser, kind)))
                /\ parser' = NewParser
                /\ doneAt' = Append(doneAt, delivered - Len(r.buffer))
           ELSE /\ parser' = r.parser
                /\ UNCHANGED <<output, doneAt>>
        /\ UNCHANGED <<expected, stream, delivered, codec, split>>
        /\ UnchangedExcept("rtsp")

\* the call that follows every chunk
ParseAfterChunk == pending /\ CallParse

\* a further call on the same buffer after a Done (parse_pipelined_requests)
ParseAgain == ~pending /\ lastStatus = "Done" /\ CallParse

\* FramedRead: decode is called until it returns no item, then more bytes are read
Decode ==
    /\ pending
    /\ \E r \in {CodecDecode(codec, parser, KindOf(expected), buffer)} :
           /\ buffer' = r.buf
           /\ codec' = r.codec
           /\ parser' = r.parser
           /\ lastStatus' = IF r.err # "" THEN r.err
                            ELSE IF IsSome(r.item) THEN "Item" ELSE "NoItem"
           /\ pending' = (r.err = "" /\ IsSome(r.item))
           /\ output' = IF r.err = "" /\ IsSome(r.item)
                        THEN Append(output, Unwrap(r.item)) ELSE output
           /\ doneAt' = IF r.err = "" /\ IsSome(r.item)
                        THEN Append(doneAt, delivered - Len(r.buf)) ELSE doneAt
    /\ UNCHANGED <<expected, stream, delivered, split>>
    /\ UnchangedExcept("rtsp")

InitParser ==
    InitFeed(SeqsUpTo(RequestItems) \cup SeqsUpTo(ResponseItems)) /\ IdleExcept("rtsp")
NextParser == AppendChunk \/ ParseAfterChunk \/ ParseAgain
SpecParser == InitParser /\ [][NextParser]_vars
\* the caller goes on reading and parsing as long as there is something to do
SpecParserFair == SpecParser /\ WF_vars(NextParser)

InitCodec == InitFeed(SeqsUpTo(ResponseItems \cup FrameItems)) /\ IdleExcept("rtsp")
NextCodec == AppendChunk \/ Decode
SpecCodec == InitCodec /\ [][NextCodec]_vars

-----------------------------------------------------------------------------
(* Properties of the RTSP parser and codec.                                 *)

\* C1 -- RTSP chunk-invariance.  For a stream that is one serialized request or
\* response, cut into chunks in any way, with Parser::parse called after each append:
\* as long as the last byte has not been appended every call returns Hungry and no
\* message is produced; the call after the last byte returns Done, the parser has then
\* consumed exactly len(message) bytes, the buffer is empty, and into_message gives
\* the original message.
C1_ChunkInvariance ==
    Len(expected) = 1 =>
        /\ delivered < Len(stream) =>
               output = <<>> /\ lastStatus \in {"None", "Hungry"}
        /\ (delivered = Len(stream) /\ ~pending) =>
               /\ output = expected
               /\ doneAt = <<Len(stream)>>
               /\ buffer = <<>>
               /\ lastStatus \in {"Done", "Hungry"}
               /\ lastStatus = "Hungry" => parser = NewParser

\* a message with a body, delivered in several chunks, has just been completed
C1_Witness ==
    /\ Len(expected) = 1 /\ split /\ lastStatus = "Done" /\ output = expected
    /\ IsSome(expected[1].body) /\ Unwrap(expected[1].body) # <<>>
    /\ buffer = <<>> /\ doneAt = <<Len(stream)>>

\* C2 -- Pipelining.  For a stream of k serialized requests (or responses) in any
\* chunking, the caller that parses after each chunk, takes the message and a fresh
\* parser at every Done and parses what is left, gets the messages in stream order,
\* each with its own headers and body; at the j-th Done exactly the bytes up to the
\* end of message j have been consumed, none of message j+1; no call fails; and in the
\* end the caller has obtained all k messages.
C2_Safe ==
    /\ Len(output) <= Len(expected)
    /\ output = SubSeq(expected, 1, Len(output))
    /\ Len(doneAt) = Len(output)
    /\ \A j \in 1..Len(doneAt) : doneAt[j] = EndOffset(expected, j)
    /\ lastStatus \in {"None", "Hungry", "Done"}
    /\ (delivered = Len(stream) /\ ~pending /\ lastStatus = "Hungry") => output = expected
C2_Pipelining == []C2_Safe /\ <>(output = expected /\ buffer = <<>>)

\* two pipelined requests, the first with a body, both obtained from a chunked stream
C2_Witness ==
    /\ expected = <<ReqPlay, ReqOptions>> /\ split /\ output = expected
    /\ doneAt = <<EndOffset(expected, 1), Len(stream)>>

\* C3 -- Codec demultiplexing.  Codec::decode yields the items of the stream in stream
\* order and all of them once the stream is read.  In Init the first buffered byte
\* alone decides the branch ('$' the interleaved parser, any other byte the message
\* parser); the branch is kept while the item is incomplete; on an empty buffer decode
\* returns no item and consumes nothing; after each item the codec is in Init with
\* fresh sub-parsers.
C3_Order ==
    /\ Len(output) <= Len(expected)
    /\ output = SubSeq(expected, 1, Len(output))
    /\ (delivered = Len(stream) /\ ~pending) => output = expected /\ buffer = <<>>
    /\ lastStatus \in {"None", "Item", "NoItem"}
    /\ codec.state = "Init" => codec.iparser = None /\ parser = NewParser
C3_DecodeStep ==
    (pending /\ delivered' = delivered) =>
        /\ buffer = <<>> => output' = output /\ buffer' = buffer /\ codec' = codec
        /\ (codec.state = "Init" /\ buffer # <<>> /\ output' = output) =>
               codec'.state = IF buffer[1] = 36 THEN "ParseInterleaved" ELSE "ParseMessage"
        /\ (codec.state = "Init" /\ buffer # <<>> /\ output' # output) =>
               (buffer[1] = 36 <=> output'[Len(output')].kind = "interleaved")
        /\ (codec.state # "Init" /\ output' = output) => codec'.state = codec.state
        /\ (codec.state = "ParseInterleaved" /\ output' # output) =>
               output'[Len(output')].kind = "interleaved"
        /\ (codec.state = "ParseMessage" /\ output' # output) =>
               output'[Len(output')].kind # "interleaved"
        /\ output' # output =>
               Len(output') = Len(output) + 1 /\ codec' = NewCodec /\ parser' = NewParser
C3_Demultiplexing == []C3_Order /\ [][C3_DecodeStep]_vars

\* a frame followed by a response, read in several chunks, both yielded
C3_Witness ==
    /\ Len(expected) = 2 /\ expected[1].kind = "interleaved" /\ expected[1].payload # <<>>
    /\ expected[2].kind = "response" /\ split
    /\ output = expected /\ lastStatus = "NoItem" /\ codec = NewCodec

-----------------------------------------------------------------------------
(* rave_rtp: the common packetizer (packetization/common.rs) and the H.264   *)
(* packetizers (packetization/h264.rs).                                      *)

\* bitwise and / or of two naturals
RECURSIVE BitAnd(_, _)
BitAnd(a, b) ==
    Let2(a, b, LAMBDA x, y :
        IF x = 0 \/ y = 0 THEN 0
        ELSE (x % 2) * (y % 2) + 2 * BitAnd(x \div 2, y \div 2))
BitOr(a, b) == Let2(a, b, LAMBDA x, y : x + y - BitAnd(x, y))

\* usize arithmetic wraps modulo 2^64 when overflow checks are off; the model wraps at
\* a modulus far above every length and MTU it handles, with the same effect
UsizeModulus == 2 ^ 24

\* PacketizationParameters.csrc of the packetizers in the model
Csrc == <<>>
\* Header::serialized_len of the packetizer's header (no extension)
HeaderLen == 12 + (Len(Csrc) * 4)

\* the MTU check of Packetizer::packetize
ExceedsMtuNever(len, m) == FALSE
ExceedsMtu(len, m) == len > m

\* A faulty Packetizer::packetize: the sequence number grows without wrapping at 2^16.
InnerPacketizeNoWrap(seq, job, ts, m) ==
    [seq |-> seq + 1,
     err |-> IF ExceedsMtu(HeaderLen + Len(job.payload), m)
             THEN "PacketSizeExceedsMtu" ELSE "",
     packet |-> [marker |-> job.marker, sequence_number |-> seq, timestamp |-> ts,
                 payload |-> job.payload, kind |-> job.kind]]

\* Packetizer::packetize: the next sequence number, the error ("" for Ok), the packet
InnerPacketize(seq, job, ts, m) ==
    [seq |-> (seq + 1) % 65536,
     err |-> IF ExceedsMtu(HeaderLen + Len(job.payload), m)
             THEN "PacketSizeExceedsMtu" ELSE "",
     packet |-> [marker |-> job.marker, sequence_number |-> seq, timestamp |-> ts,
                 payload |-> job.payload, kind |-> job.kind]]

\* a run of Packetizer::packetize calls that stops at the first error: jobs are the
\* payloads with their marker (kind names the payload format, it is not on the wire)
RECURSIVE RunJobs(_, _, _, _, _)
RunJobs(seq, jobs, ts, m, acc) ==
    IF jobs = <<>> THEN [seq |-> seq, err |-> "", packets |-> acc]
    ELSE Let(InnerPacketize(seq, jobs[1], ts, m), LAMBDA r :
             IF r.err # "" THEN [seq |-> r.seq, err |-> r.err, packets |-> <<>>]
             ELSE RunJobs(r.seq, Tail(jobs), ts, m, Append(acc, r.packet)))

\* A faulty H264PacketizerMode0::packetize: the marker is set on every packet.
PacketizeMode0AllMarked(seq, data, ts, m) ==
    RunJobs(seq, [i \in 1..Len(data) |->
                     [payload |-> data[i], marker |-> TRUE, kind |-> "single"]],
            ts, m, <<>>)

\* H264PacketizerMode0::packetize
PacketizeMode0(seq, data, ts, m) ==
    RunJobs(seq, [i \in 1..Len(data) |->
                     [payload |-> data[i], marker |-> (i - 1 = Len(data) - 1),
                      kind |-> "single"]], ts, m, <<>>)

\* the size group_nal_units computes for a group
RECURSIVE CombinedSize(_)
CombinedSize(group) ==
    IF group = <<>> THEN HeaderLen
    ELSE (2 + Len(group[1])) + CombinedSize(Tail(group))

\* H264PacketizerMode1::group_nal_units, from the i-th NAL unit on
RECURSIVE GroupNalUnits(_, _, _, _)
GroupNalUnits(data, i, grouped, m) ==
    IF i > Len(data) THEN grouped
    ELSE IF grouped # <<>> /\ CombinedSize(grouped[Len(grouped)]) <= m
         THEN Let([grouped EXCEPT ![Len(grouped)] = Append(@, data[i])], LAMBDA g :
                  GroupNalUnits(data, i + 1, g, m))
         ELSE Let(Append(grouped, <<data[i]>>), LAMBDA g :
                  GroupNalUnits(data, i + 1, g, m))

\* fu_payload_max_len = mtu - (header_serialized_len + 2): None is the overflow panic
FuPayloadMaxLen(m, overflowChecks) ==
    IF m >= HeaderLen + 2 THEN Some(m - (HeaderLen + 2))
    ELSE IF overflowChecks THEN None
    ELSE Some(UsizeModulus + m - (HeaderLen + 2))

\* H264PacketizerMode1::payload_fragmented_unit_a: None is a panic
PayloadFragmentedUnitA(nal_unit, m, overflowChecks) ==
    Let(FuPayloadMaxLen(m, overflowChecks), LAMBDA fu :
        IF fu = None \/ nal_unit = <<>> \/ Unwrap(fu) = 0 THEN None
        ELSE Let2(Tail(nal_unit), Unwrap(fu), LAMBDA rest, size :
                 Let2(BitAnd(nal_unit[1], 31), BitAnd(nal_unit[1], 96),
                      LAMBDA nal_unit_type, nal_ref_idc :
                     Let((Len(rest) + size - 1) \div size, LAMBDA chunks_len :
                         Some([i \in 1..chunks_len |->
                                 <<BitAnd(28, nal_ref_idc),
                                   BitOr(BitOr(nal_unit_type,
                                               IF i - 1 = 0 THEN 128 ELSE 0),
                                         IF i - 1 = chunks_len - 1 THEN 64 ELSE 0)>>
                                 \o SubSeq(rest, (i - 1) * size + 1,
                                           IF i * size < Len(rest) THEN i * size
                                           ELSE Len(rest))])))))

\* H264PacketizerMode1::payload_stap_a: None is Err(H264NalUnitDataLengthInvalid)
PayloadStapA(nal_units) ==
    IF \E i \in 1..Len(nal_units) : Len(nal_units[i]) > 65535 THEN None
    ELSE Some(Concat([i \in 1..Len(nal_units) |->
                        <<Len(nal_units[i]) \div 256, Len(nal_units[i]) % 256>>
                        \o nal_units[i]]))

\* the marker of a fragment packet
MarkerFirstFragment(is_last_group, j, num_packets) == is_last_group /\ j = 0
MarkerOfFragment(is_last_group, j, num_packets) == is_last_group /\ j = num_packets - 1

\* H264PacketizerMode1::packetize, the body of the loop over the groups: the payloads
\* of one group with their markers, or the error that ends the call
GroupJobs(group, is_last_group, m, overflowChecks) ==
    IF Len(group) = 1
    THEN IF HeaderLen + Len(group[1]) <= m
         THEN [err |-> "", jobs |-> <<[payload |-> group[1], marker |-> is_last_group,
                                       kind |-> "single"]>>]
         ELSE Let(PayloadFragmentedUnitA(group[1], m, overflowChecks), LAMBDA fus :
                  IF fus = None THEN [err |-> "Panic", jobs |-> <<>>]
                  ELSE [err |-> "",
                        jobs |-> [j \in 1..Len(Unwrap(fus)) |->
                                    [payload |-> Unwrap(fus)[j],
                                     marker |-> MarkerOfFragment(is_last_group, j - 1,
                                                                 Len(Unwrap(fus))),
                                     kind |-> "fu"]]])
    ELSE Let(PayloadStapA(group), LAMBDA stap :
             IF stap = None THEN [err |-> "H264NalUnitDataLengthInvalid", jobs |-> <<>>]
             ELSE [err |-> "", jobs |-> <<[payload |-> Unwrap(stap),
                                           marker |-> is_last_group, kind |-> "stap"]>>])

\* H264PacketizerMode1::packetize with an MTU, from the i-th group on
RECURSIVE RunGroups(_, _, _, _, _, _, _)
RunGroups(seq, groups, i, ts, m, overflowChecks, acc) ==
    IF i > Len(groups) THEN [seq |-> seq, err |-> "", packets |-> acc]
    ELSE Let(GroupJobs(groups[i], i - 1 = Len(groups) - 1, m, overflowChecks), LAMBDA g :
             IF g.err # "" THEN [seq |-> seq, err |-> g.err, packets |-> <<>>]
             ELSE Let(RunJobs(seq, g.jobs, ts, m, <<>>), LAMBDA r :
                      IF r.err # "" THEN r
                      ELSE RunGroups(r.seq, groups, i + 1, ts, m, overflowChecks,
                                     acc \o r.packets)))

PacketizeMode1(seq, data, ts, m, overflowChecks) ==
    Let(GroupNalUnits(data, 1, <<>>, m), LAMBDA groups :
        RunGroups(seq, groups, 1, ts, m, overflowChecks, <<>>))

\* H264Packetizer::packetize
H264Packetize(md, seq, data, ts, m, overflowChecks) ==
    IF md = 0 THEN PacketizeMode0(seq, data, ts, m)
    ELSE PacketizeMode1(seq, data, ts, m, overflowChecks)

-----------------------------------------------------------------------------
(* rave_rtp: the H.264 depacketizer (packetization/h264.rs).                *)

\* the STAP-A branch of depacketize: the aggregation units of payload, or the error
RECURSIVE StapUnits(_, _)
StapUnits(payload, acc) ==
    IF payload = <<>> THEN [err |-> "", nals |-> acc]
    ELSE IF Len(payload) < 2
         THEN [err |-> "H264AggregationUnitHeaderInvalid", nals |-> <<>>]
    ELSE Let2(payload[1] * 256 + payload[2], Drop(payload, 2),
              LAMBDA nal_unit_length, rest :
             IF Len(rest) < nal_unit_length
             THEN [err |-> "H264AggregationUnitDataTooSmall", nals |-> <<>>]
             ELSE Let2(Drop(rest, nal_unit_length),
                       Append(acc, Take(rest, nal_unit_length)),
                       LAMBDA rest2, acc2 : StapUnits(rest2, acc2)))

\* A faulty FU-A branch: a start fragment that arrives in the middle of a fragment
\* starts over instead of failing.
FragmentationUnitRestart(buf, nal_unit_type, fragmentation_unit_header, payload) ==
    Let2(BitAnd(fragmentation_unit_header, 128) > 0,
         BitAnd(fragmentation_unit_header, 64) > 0, LAMBDA start, end :
        Let(BitOr(BitAnd(fragmentation_unit_header, 31), BitAnd(nal_unit_type, 96)),
            LAMBDA recovered_type :
            IF start /\ ~end
            THEN [buf |-> Some(payload), nals |-> <<>>, err |-> ""]
            ELSE IF ~start /\ ~end
            THEN IF IsSome(buf)
                 THEN [buf |-> Some(Unwrap(buf) \o payload), nals |-> <<>>, err |-> ""]
                 ELSE [buf |-> buf, nals |-> <<>>,
                       err |-> "H264FragmentedStateNeverStarted"]
            ELSE IF ~start /\ end
            THEN IF IsSome(buf)
                 THEN [buf |-> None,
                       nals |-> << <<recovered_type>> \o Unwrap(buf) \o payload >>,
                       err |-> ""]
                 ELSE [buf |-> buf, nals |-> <<>>,
                       err |-> "H264FragmentedStateNeverStarted"]
            ELSE [buf |-> buf, nals |-> << <<recovered_type>> \o payload >>, err |-> ""]))

\* the FU-A branch of depacketize: nal_unit_type is the masked first payload byte
FragmentationUnit(buf, nal_unit_type, fragmentation_unit_header, payload) ==
    Let2(BitAnd(fragmentation_unit_header, 128) > 0,
         BitAnd(fragmentation_unit_header, 64) > 0, LAMBDA start, end :
        Let(BitOr(BitAnd(fragmentation_unit_header, 31), BitAnd(nal_unit_type, 96)),
            LAMBDA recovered_type :
            IF start /\ ~end
            THEN IF IsSome(buf)
                 THEN [buf |-> buf, nals |-> <<>>,
                       err |-> "H264FragmentedStateAlreadyStarted"]
                 ELSE [buf |-> Some(payload), nals |-> <<>>, err |-> ""]
            ELSE IF ~start /\ ~end
            THEN IF IsSome(buf)
                 THEN [buf |-> Some(Unwrap(buf) \o payload), nals |-> <<>>, err |-> ""]
                 ELSE [buf |-> buf, nals |-> <<>>,
                       err |-> "H264FragmentedStateNeverStarted"]
            ELSE IF ~start /\ end
            THEN IF IsSome(buf)
                 THEN [buf |-> None,
                       nals |-> << <<recovered_type>> \o Unwrap(buf) \o payload >>,
                       err |-> ""]
                 ELSE [buf |-> buf, nals |-> <<>>,
                       err |-> "H264FragmentedStateNeverStarted"]
            ELSE [buf |-> buf, nals |-> << <<recovered_type>> \o payload >>, err |-> ""]))

\* A faulty depacketize: the type is the whole first byte, not its low five bits.
H264DepacketizeUnmasked(buf, payload) ==
    IF Len(payload) <= 1
    THEN [buf |-> buf, nals |-> <<>>, err |-> "H264NalUnitLengthTooSmall"]
    ELSE Let(payload[1], LAMBDA nal_unit_type :
             CASE nal_unit_type \in 1..23 ->
                    [buf |-> buf, nals |-> <<payload>>, err |-> ""]
               [] nal_unit_type = 24 ->
                    Let(StapUnits(Tail(payload), <<>>), LAMBDA r :
                        [buf |-> buf, nals |-> r.nals, err |-> r.err])
               [] nal_unit_type \in {25, 26, 27, 29} ->
                    [buf |-> buf, nals |-> <<>>,
                     err |-> "H264DepacketizationNalUnitTypeUnsupported"]
               [] nal_unit_type = 28 ->
                    FragmentationUnit(buf, nal_unit_type, payload[2], Drop(payload, 2))
               [] nal_unit_type \in {30, 31} ->
                    [buf |-> buf, nals |-> <<>>, err |-> ""]
               [] OTHER ->
                    [buf |-> buf, nals |-> <<>>,
                     err |-> "H264DepacketizationNalUnitTypeUnknown"])

\* H264Depacketizer::depacketize: the fragment buffer after the call, the NAL units
\* returned and the error ("" for Ok)
H264Depacketize(buf, payload) ==
    IF Len(payload) <= 1
    THEN [buf |-> buf, nals |-> <<>>, err |-> "H264NalUnitLengthTooSmall"]
    ELSE Let(BitAnd(payload[1], 31), LAMBDA nal_unit_type :
             CASE nal_unit_type \in 1..23 ->
                    [buf |-> buf, nals |-> <<payload>>, err |-> ""]
               [] nal_unit_type = 24 ->
                    Let(StapUnits(Tail(payload), <<>>), LAMBDA r :
                        [buf |-> buf, nals |-> r.nals, err |-> r.err])
               [] nal_unit_type \in {25, 26, 27, 29} ->
                    [buf |-> buf, nals |-> <<>>,
                     err |-> "H264DepacketizationNalUnitTypeUnsupported"]
               [] nal_unit_type = 28 ->
                    FragmentationUnit(buf, nal_unit_type, payload[2], Drop(payload, 2))
               [] nal_unit_type \in {30, 31} ->
                    [buf |-> buf, nals |-> <<>>, err |-> ""]
               [] OTHER ->
                    [buf |-> buf, nals |-> <<>>,
                     err |-> "H264DepacketizationNalUnitTypeUnknown"])

-----------------------------------------------------------------------------
(* One access unit through a packetizer, its packets through a depacketizer. *)

\* the first byte of the i-th NAL unit: IDR slice, non-IDR slice, SEI, SPS, ...
NalHeaders == <<101, 65, 6, 103, 104>>
\* the i-th NAL unit of an access unit, len bytes long
NalUnit(i, len) ==
    <<NalHeaders[((i - 1) % Len(NalHeaders)) + 1]>> \o [j \in 1..(len - 1) |-> 16 * i + j]
AccessUnits ==
    {[i \in 1..Len(lens) |-> NalUnit(i, lens[i])] :
        lens \in UNION {[1..n -> 1..MaxNalLen] : n \in 1..MaxNals}}
\* rand::random::<u16>() in Packetizer::new
InitialSeqs == {0, 65535}
Timestamps == {90000}

InitH264 ==
    /\ mode \in {0, 1}
    /\ mtu \in HeaderLen..MaxMtu
    /\ seqNo \in InitialSeqs
    /\ au = <<>>
    /\ auTimestamp = 0
    /\ pktResult = "None"
    /\ packets = <<>>
    /\ fragBuf = None
    /\ fed = 0
    /\ nals = <<>>
    /\ depResult = "None"
    /\ IdleExcept("h264")

\* packetizer.packetize(data, timestamp), once for the access unit
Packetize ==
    /\ pktResult = "None"
    /\ \E data \in AccessUnits, ts \in Timestamps, overflowChecks \in BOOLEAN :
         \E r \in {H264Packetize(mode, seqNo, data, ts, mtu, overflowChecks)} :
            /\ au' = data
            /\ auTimestamp' = ts
            /\ seqNo' = r.seq
            /\ pktResult' = IF r.err = "" THEN "Ok" ELSE r.err
            /\ packets' = r.packets
    /\ UNCHANGED <<mode, mtu, fragBuf, fed, nals, depResult>>
    /\ UnchangedExcept("h264")

\* depacketizer.depacketize(&packet) for the next packet of the list
Depacketize ==
    /\ pktResult = "Ok"
    /\ fed < Len(packets)
    /\ \E r \in {H264Depacketize(fragBuf, packets[fed + 1].payload)} :
            /\ fragBuf' = r.buf
            /\ nals' = nals \o r.nals
            /\ depResult' = IF r.err = "" THEN "Ok" ELSE r.err
    /\ fed' = fed + 1
    /\ UNCHANGED <<mode, mtu, seqNo, au, auTimestamp, pktResult, packets>>
    /\ UnchangedExcept("h264")

NextH264 == Packetize \/ Depacketize
SpecH264 == InitH264 /\ [][NextH264]_vars

-----------------------------------------------------------------------------
(* Properties of the H.264 packetizer and depacketizer.                     *)

KindsOf(pkts) == [i \in 1..Len(pkts) |-> pkts[i].kind]

\* C4 -- H.264 round trip.  In mode 1 with an MTU of at least header_len + 3, for an
\* access unit of NAL units of type 1..23 and length >= 2: packetize succeeds, every
\* depacketize call on the packets in order succeeds, and the NAL units returned over
\* the calls are the input NAL units, in order and byte for byte.
C4_Applies ==
    /\ mode = 1 /\ mtu >= HeaderLen + 3 /\ pktResult # "None"
    /\ \A i \in 1..Len(au) : Len(au[i]) >= 2 /\ BitAnd(au[i][1], 31) \in 1..23
C4_RoundTrip ==
    C4_Applies =>
        /\ pktResult = "Ok"
        /\ depResult \in {"None", "Ok"}
        /\ fed = Len(packets) => nals = au

\* C5 -- Marker bit.  When the mode-1 packetizer returns a list of packets for an
\* access unit, the marker bit is set on the last packet of the list and on no other,
\* whatever the mix of single NAL unit, STAP-A and FU-A packets.
C5_MarkerBit ==
    (mode = 1 /\ pktResult = "Ok" /\ packets # <<>>) =>
        \A i \in 1..Len(packets) : packets[i].marker <=> (i = Len(packets))

\* a fragmented NAL unit followed by an aggregation packet, marker on the last only
C5_Witness ==
    /\ mode = 1 /\ pktResult = "Ok"
    /\ KindsOf(packets) = <<"fu", "fu", "stap">>
    /\ packets[3].marker /\ ~packets[1].marker /\ ~packets[2].marker

\* C6 -- MTU bound.  Every packet returned by a packetizer (mode 0 or 1) configured
\* with an MTU has header_len + payload length <= MTU, be it a single NAL unit, a
\* STAP-A or an FU-A packet.
C6_MtuBound ==
    pktResult = "Ok" =>
        \A i \in 1..Len(packets) : HeaderLen + Len(packets[i].payload) <= mtu

\* fragments and an aggregation packet, one packet filling the MTU, one below it
C6_Witness ==
    /\ pktResult = "Ok"
    /\ {"fu", "stap"} \subseteq {packets[i].kind : i \in 1..Len(packets)}
    /\ \E i \in 1..Len(packets) : HeaderLen + Len(packets[i].payload) = mtu
    /\ \E i \in 1..Len(packets) : HeaderLen + Len(packets[i].payload) < mtu

-----------------------------------------------------------------------------
(* rave_rtsp: the client (client.rs) and the server it talks to.           *)

\* Sequencer::new
SequencerNew == 0
\* Sequencer::sequence: the value returned and the sequence_number left behind
SequencerStuck(n) == n
SequencerNext(n) == n + 1
Sequence(n) == Let(n, LAMBDA k : [value |-> k, next |-> SequencerNext(k)])

\* Headers::with_cseq, Headers::with_cseq_and_session
HeadersWithCseq(cseq) == HeadersInsert(EmptyHeaders, H_CSeq, ToDec(cseq))
HeadersWithCseqAndSession(cseq, session_id) ==
    HeadersInsert(HeadersWithCseq(cseq), H_Session, session_id)
HeadersGet(h, k) == Let2(h, k, LAMBDA hs, n : IF n \in DOMAIN hs THEN Some(hs[n]) ELSE None)
H_Location == <<76, 111, 99, 97, 116, 105, 111, 110>>

\* The Uri of the client: "rtsp://h/m" as connect parses it
ConnectUri ==
    [scheme |-> <<114, 116, 115, 112>>, authority |-> <<104>>, path |-> <<47, 109>>]
UriBytes(u) == Let(u, LAMBDA v : v.scheme \o <<58, 47, 47>> \o v.authority \o v.path)

\* A faulty parse::<PathAndQuery>: the fragment is kept.
PathAndQueryWhole(location) ==
    Let(location, LAMBDA loc :
        IF \E i \in 1..Len(loc) : loc[i] < 33 \/ loc[i] > 126 THEN None ELSE Some(loc))

\* str::parse::<PathAndQuery>: no byte outside the visible ASCII range, and what
\* follows a '#' is dropped; None stands for the error
PathAndQueryParse(location) ==
    Let2(location, IndexOf(location, 35), LAMBDA loc, hash :
        IF \E i \in 1..Len(loc) : loc[i] < 33 \/ loc[i] > 126 THEN None
        ELSE Some(IF hash = 0 THEN loc ELSE Take(loc, hash - 1)))

\* A faulty Response::status: 4xx counts as a redirection.
StatusCategoryWide(status) ==
    Let(status, LAMBDA s :
        IF s >= 600 THEN "Unknown"
        ELSE IF s >= 500 THEN "ServerError"
        ELSE IF s >= 300 THEN "Redirection"
        ELSE IF s >= 200 THEN "Success"
        ELSE IF s >= 100 THEN "Informational"
        ELSE "Unknown")

\* Response::status
StatusCategory(status) ==
    Let(status, LAMBDA s :
        IF s >= 600 THEN "Unknown"
        ELSE IF s >= 500 THEN "ServerError"
        ELSE IF s >= 400 THEN "ClientError"
        ELSE IF s >= 300 THEN "Redirection"
        ELSE IF s >= 200 THEN "Success"
        ELSE IF s >= 100 THEN "Informational"
        ELSE "Unknown")

\* A faulty request builder: it sends a Session header whatever the session field is.
BuildRequestWithSession(method, u, cseq, sess) ==
    Request(method, UriBytes(u), "V1", HeadersWithCseqAndSession(cseq, <<115>>), None)

\* the request request_without_redirect_handling builds (no additional headers)
BuildRequest(method, u, cseq, sess) ==
    Request(method, UriBytes(u), "V1",
            IF IsSome(sess) THEN HeadersWithCseqAndSession(cseq, Unwrap(sess))
            ELSE HeadersWithCseq(cseq),
            None)

\* `for _request_count in 0..20`
MaxRedirects == 20
LoopContinuesOnceMore(count) == count <= MaxRedirects
LoopContinues(count) == count < MaxRedirects

\* Client::options, Client::describe: what the call makes of the response of request
CallOutcome(method, resp) ==
    IF method = "Describe" /\ ~IsSome(resp.body) THEN "MissingSdp" ELSE "Ok"

\* --- the server: it answers the requests in the order it receives them
GoodLocation == <<47, 114>>
BadLocation == <<47, 97, 32, 98>>
FragmentLocation == <<47, 114, 63, 113, 35, 116>>
ReplyKinds == {"ok", "okSession", "redirect", "redirectNoLocation",
               "redirectBadLocation", "notFound", "unavailable", "frameThenOk",
               "continue", "unknownStatus"}
IsRedirectKind(kind) ==
    kind \in {"redirect", "redirectNoLocation", "redirectBadLocation", "redirectFragment"}
Echo(req) == HeadersInsert(EmptyHeaders, H_CSeq, req.headers[H_CSeq])
RespondOk(req) == Response("V1", 200, <<79, 75>>, Echo(req), None)
RespondFound(req) == Response("V1", 302, <<70, 111, 117, 110, 100>>, Echo(req), None)
ReplyTo(kind, request) ==
    Let(request, LAMBDA req :
        CASE kind = "ok" -> <<RespondOk(req)>>
          [] kind = "okSession" ->
                <<[RespondOk(req) EXCEPT !.headers = HeadersInsert(@, H_Session, <<115>>)]>>
          [] kind = "redirect" ->
                <<[RespondFound(req) EXCEPT
                     !.headers = HeadersInsert(@, H_Location, GoodLocation)]>>
          [] kind = "redirectNoLocation" -> <<RespondFound(req)>>
          [] kind = "redirectBadLocation" ->
                <<[RespondFound(req) EXCEPT
                     !.headers = HeadersInsert(@, H_Location, BadLocation)]>>
          [] kind = "redirectFragment" ->
                <<[RespondFound(req) EXCEPT
                     !.headers = HeadersInsert(@, H_Location, FragmentLocation)]>>
          [] kind = "notFound" ->
                <<Response("V1", 404, <<78, 111>>, Echo(req), None)>>
          [] kind = "unavailable" ->
                <<Response("V1", 503, <<78, 111>>, Echo(req), None)>>
          [] kind = "frameThenOk" -> <<FrameData, RespondOk(req)>>
          [] kind = "continue" ->
                <<Response("V1", 100, <<67, 111, 110, 116, 105, 110, 117, 101>>,
                           Echo(req), None)>>
          [] kind = "unknownStatus" ->
                <<Response("V1", 600, <<78, 111>>, Echo(req), None)>>)

\* --- the dialogue
InitClient ==
    /\ IdleExcept("client")
    /\ self_uri = ConnectUri /\ sequencer = SequencerNew /\ session = None
    /\ wire = <<>> /\ inbound = <<>> /\ answered = 0 /\ redirects = 0
    /\ peerClosed = FALSE /\ writeBroken = FALSE
    /\ phase = "Idle" /\ callMethod = "" /\ request_count = 0 /\ sentInCall = 0
    /\ calls = 0 /\ result = "None" /\ response = None

\* the call returns: Ok or an error, with the response it carries if any
Return(res, resp) ==
    /\ phase' = "Idle" /\ result' = res /\ response' = resp

\* Client::options / Client::describe is called: Client::request starts its loop
Call(method) ==
    /\ phase = "Idle" /\ calls < MaxCalls
    /\ calls' = calls + 1 /\ callMethod' = method
    /\ request_count' = 0 /\ sentInCall' = 0
    /\ phase' = "Send" /\ result' = "None" /\ response' = None
    /\ UNCHANGED <<self_uri, sequencer, session, wire, inbound, answered, redirects,
                   peerClosed, writeBroken>>
    /\ UnchangedExcept("client")
Options == Call("Options")
Describe == Call("Describe")

\* request_without_redirect_handling up to the end of send: the sequence number is
\* taken, the request is built and written
SendRequest ==
    /\ phase = "Send" /\ ~writeBroken
    /\ \E s \in {Sequence(sequencer)} :
        /\ sequencer' = s.next
        /\ wire' = Append(wire, BuildRequest(callMethod, self_uri, s.value, session))
    /\ sentInCall' = sentInCall + 1
    /\ phase' = "Read"
    /\ UNCHANGED <<self_uri, session, inbound, answered, redirects, peerClosed,
                   writeBroken, callMethod, request_count, calls, result, response>>
    /\ UnchangedExcept("client")

\* the same with a write that fails: the sequence number is taken, nothing is
\* written, `?` returns the I/O error; writes on the connection fail from then on
SendFails ==
    /\ phase = "Send"
    /\ sequencer' = Sequence(sequencer).next
    /\ writeBroken' = TRUE
    /\ Return("Io", None)
    /\ UNCHANGED <<self_uri, session, wire, inbound, answered, redirects, peerClosed,
                   callMethod, request_count, sentInCall, calls>>
    /\ UnchangedExcept("client")

\* the server answers the oldest request it has not answered
ServerReply(kind) ==
    /\ ~peerClosed /\ answered < Len(wire)
    /\ inbound' = inbound \o ReplyTo(kind, wire[answered + 1])
    /\ answered' = answered + 1
    /\ redirects' = IF IsRedirectKind(kind) THEN redirects + 1 ELSE redirects
    /\ UNCHANGED <<self_uri, sequencer, session, wire, peerClosed, writeBroken, phase,
                   callMethod, request_count, sentInCall, calls, result, response>>
    /\ UnchangedExcept("client")
Reply ==
    \E kind \in ReplyKinds :
        /\ IsRedirectKind(kind) => redirects < MaxRedirectReplies
        /\ ServerReply(kind)
RedirectReply == ServerReply("redirect")

\* the server closes the connection
ServerClose ==
    /\ ~peerClosed /\ wire # <<>>
    /\ peerClosed' = TRUE
    /\ UNCHANGED <<self_uri, sequencer, session, wire, inbound, answered, redirects,
                   writeBroken, phase, callMethod, request_count, sentInCall, calls,
                   result, response>>
    /\ UnchangedExcept("client")

\* Client::request after a 3xx response: the Location replaces path and query, and
\* the loop goes round or runs out
Redirection(resp) ==
    \E location \in {HeadersGet(resp.headers, H_Location)} :
      IF ~IsSome(location)
      THEN Return("InvalidRedirect", None) /\ UNCHANGED <<self_uri, request_count>>
      ELSE \E pq \in {PathAndQueryParse(Unwrap(location))} :
        IF ~IsSome(pq)
        THEN Return("InvalidRedirect", None) /\ UNCHANGED <<self_uri, request_count>>
        ELSE /\ self_uri' = [self_uri EXCEPT !.path = Unwrap(pq)]
             /\ request_count' = request_count + 1
             /\ IF LoopContinues(request_count + 1)
                THEN phase' = "Send" /\ UNCHANGED <<result, response>>
                ELSE Return("MaximumNumberOfRedirectsReached", None)

\* read.next() yields an item: the rest of request_without_redirect_handling, the
\* match in Client::request, and the end of options / describe
ReadReply ==
    /\ phase = "Read" /\ inbound # <<>>
    /\ inbound' = Tail(inbound)
    /\ \E item \in {Head(inbound)} :
        IF item.kind = "interleaved"
        THEN Return("UnexpectedInterleavedMessage", None)
             /\ UNCHANGED <<self_uri, request_count>>
        ELSE \E category \in {StatusCategory(item.status)} :
            IF category = "Success"
            THEN Return(CallOutcome(callMethod, item), Some(item))
                 /\ UNCHANGED <<self_uri, request_count>>
            ELSE IF category = "Redirection"
            THEN Redirection(item)
            ELSE Return("Status", Some(item)) /\ UNCHANGED <<self_uri, request_count>>
    /\ UNCHANGED <<sequencer, session, wire, answered, redirects, peerClosed, writeBroken,
                   callMethod, sentInCall, calls>>
    /\ UnchangedExcept("client")

\* read.next() yields None: the connection is closed and nothing is left to read
ReadEof ==
    /\ phase = "Read" /\ inbound = <<>> /\ peerClosed
    /\ Return("ConnectionClosed", None)
    /\ UNCHANGED <<self_uri, sequencer, session, wire, inbound, answered, redirects,
                   peerClosed, writeBroken, callMethod, request_count, sentInCall, calls>>
    /\ UnchangedExcept("client")

NextClient ==
    Options \/ Describe \/ SendRequest \/ SendFails \/ Reply \/ ServerClose \/ ReadReply
    \/ ReadEof
SpecClient == InitClient /\ [][NextClient]_vars

\* The client against a server that answers every request with a redirect to a
\* parseable Location.  The call is awaited and the server answers: each step that
\* can be taken is taken.
NextRedirecting == Options \/ Describe \/ SendRequest \/ RedirectReply \/ ReadReply
SpecRedirecting == InitClient /\ [][NextRedirecting]_vars /\ WF_vars(NextRedirecting)

-----------------------------------------------------------------------------
(* Properties of the client.                                                *)

\* C7 -- CSeq monotonicity.  Whatever calls are made and whatever the server replies
\* (success, redirect, error status, interleaved frame, EOF), the n-th request written
\* to the connection (n = 0, 1, 2, ..., redirect retries counted) carries CSeq = n: no
\* value is repeated or skipped.
C7_CSeqMonotonic ==
    \A n \in 1..Len(wire) :
        /\ HeadersGet(wire[n].headers, H_CSeq) = Some(ToDec(n - 1))
        /\ ParseUsize(wire[n].headers[H_CSeq]) = Some(n - 1)

\* two calls, one ended by an interleaved frame (its reply is still unread), a
\* redirect retried, and four requests on the wire
C7_Witness ==
    /\ calls = 2 /\ Len(wire) = 4 /\ redirects >= 1 /\ phase = "Idle"
    /\ inbound # <<>> /\ result = "Ok"
    /\ wire[1].method # wire[4].method

\* C8 -- Redirect termination.  Against a server that answers every request with a
\* 3xx response carrying a parseable Location, an options or describe call
\* terminates, returns MaximumNumberOfRedirectsReached, and has sent exactly 20
\* requests when it does.
C8_Returned ==
    (phase = "Idle" /\ calls > 0) =>
        result = "MaximumNumberOfRedirectsReached" /\ sentInCall = 20
C8_RedirectTermination ==
    /\ []C8_Returned
    /\ [](phase # "Idle" => <>(phase = "Idle"))

\* a call has returned MaximumNumberOfRedirectsReached after its 20th request
C8_Witness ==
    /\ phase = "Idle" /\ result = "MaximumNumberOfRedirectsReached"
    /\ sentInCall = 20 /\ request_count = 20 /\ Len(wire) = 20
    /\ self_uri.path = GoodLocation

\* C16 -- Request/response pairing.  For any sequence of sequentially awaited Client
\* calls on one connection, including calls that ended with an error such as
\* UnexpectedInterleavedMessage, the response a call returns (in Ok or in Status) is the
\* server's reply to the request sent in that same call: its CSeq equals the CSeq of
\* that request and is never the reply to an earlier request.
C16_Pairing ==
    (phase = "Idle" /\ IsSome(response)) =>
        HeadersGet(Unwrap(response).headers, H_CSeq)
            = HeadersGet(wire[Len(wire)].headers, H_CSeq)

\* the step in which the running call reads the next item of the connection
ReadsItem == phase = "Read" /\ inbound # <<>> /\ inbound' = Tail(inbound)

\* C18 -- Status surfacing.  When the reply to a request has a status code in 400..599,
\* Client::request returns the error Status(response) carrying that very response and
\* sends no further request within that call; only a 2xx reply returns Ok and only a
\* 3xx reply causes another request to be sent.
C18_ReadStep ==
    ReadsItem =>
        \A item \in {Head(inbound)} :
            item.kind # "interleaved" =>
                /\ item.status \in 400..599 =>
                       /\ phase' = "Idle" /\ result' = "Status"
                       /\ response' = Some(item)
                       /\ wire' = wire /\ sentInCall' = sentInCall
                /\ (phase' = "Idle" /\ result' \in {"Ok", "MissingSdp"}) =>
                       item.status \in 200..299
                /\ phase' = "Send" => item.status \in 300..399
C18_StatusSurfacing == [][C18_ReadStep]_vars

\* a call that was redirected once has returned Status with a 503 response
C18_Witness ==
    /\ phase = "Idle" /\ result = "Status" /\ sentInCall = 2
    /\ IsSome(response) /\ Unwrap(response).status = 503

-----------------------------------------------------------------------------
(* rave_rtp: Header serialization (serialize.rs) and parsing (parse.rs).    *)
(* A u32 is the pair of its 16-bit halves.                                  *)

U32(hi, lo) == [hi |-> hi, lo |-> lo]
PutU16(n) == Let(n, LAMBDA v : <<v \div 256, v % 256>>)
PutU32(w) == Let(w, LAMBDA v : PutU16(v.hi) \o PutU16(v.lo))
GetU16(src) == Let(src, LAMBDA b : b[1] * 256 + b[2])
GetU32(src) == Let(src, LAMBDA b : U32(GetU16(b), GetU16(Drop(b, 2))))
PutU32s(ws) == Let(ws, LAMBDA v : Concat([i \in 1..Len(v) |-> PutU32(v[i])]))
GetU32s(src, n) == Let(src, LAMBDA b : [i \in 1..n |-> GetU32(Drop(b, 4 * (i - 1)))])

\* u8 << n and u8 >> n
Shl8(x, n) == (x * (2 ^ n)) % 256
Shr8(x, n) == x \div (2 ^ n)

\* Version::as_number, Version::try_from
VersionAsNumber(v) == IF v = "Version1" THEN 1 ELSE 2
VersionTryFrom(n) ==
    Let(n, LAMBDA k : IF k = 1 THEN Some("Version1") ELSE IF k = 2 THEN Some("Version2") ELSE None)

Header(version, padding, marker, payload_type, sequence_number, timestamp, ssrc, csrc, extension) ==
    [version |-> version, padding |-> padding, marker |-> marker,
     payload_type |-> payload_type, sequence_number |-> sequence_number,
     timestamp |-> timestamp, ssrc |-> ssrc, csrc |-> csrc, extension |-> extension]
Extension(profile_identifier, data) ==
    [profile_identifier |-> profile_identifier, data |-> data]

\* Serialize for Extension: [err, bytes]; the bytes written before an error stay in dst
ExtensionSerialize(extension) ==
    Let(extension, LAMBDA e :
        IF Len(e.data) > 65535
        THEN [err |-> "ExtensionLengthInvalid", bytes |-> PutU16(e.profile_identifier)]
        ELSE [err |-> "Ok",
              bytes |-> PutU16(e.profile_identifier) \o PutU16(Len(e.data))
                        \o PutU32s(e.data)])
ExtensionSerializedLen(extension) == 4 + (Len(extension.data) * 4)

\* Serialize for Header: [err, bytes]
HeaderSerialize(header) ==
    Let(header, LAMBDA h :
        IF Len(h.csrc) > 255 THEN [err |-> "CsrcCountInvalid", bytes |-> <<>>]
        ELSE Let2(BitOr(BitOr(Shl8(VersionAsNumber(h.version), 6), Len(h.csrc)),
                        BitOr(Shl8(IF h.padding THEN 1 ELSE 0, 5),
                              Shl8(IF IsSome(h.extension) THEN 1 ELSE 0, 4))),
                  BitOr(h.payload_type, Shl8(IF h.marker THEN 1 ELSE 0, 7)),
                  LAMBDA first, second :
             Let(<<first, second>> \o PutU16(h.sequence_number) \o PutU32(h.timestamp)
                 \o PutU32(h.ssrc) \o PutU32s(h.csrc), LAMBDA fixed :
                 IF IsSome(h.extension)
                 THEN Let(ExtensionSerialize(Unwrap(h.extension)), LAMBDA x :
                          [err |-> x.err, bytes |-> fixed \o x.bytes])
                 ELSE [err |-> "Ok", bytes |-> fixed])))

\* Header::serialized_len
HeaderSerializedLen(header) ==
    Let(header, LAMBDA h :
        12 + (Len(h.csrc) * 4)
        + (IF IsSome(h.extension) THEN ExtensionSerializedLen(Unwrap(h.extension)) ELSE 0))

\* Header::parse, the extension: [err, extension, rest]
ExtensionParse(src, flag) ==
    Let(src, LAMBDA b :
        IF ~flag THEN [err |-> "Ok", extension |-> None, rest |-> b]
        ELSE IF Len(b) < 4 THEN [err |-> "NotEnoughData", extension |-> None, rest |-> b]
        ELSE Let2(GetU16(b), GetU16(Drop(b, 2)), LAMBDA profile_identifier, len :
            IF Len(b) - 4 < len * 4
            THEN [err |-> "NotEnoughData", extension |-> None, rest |-> Drop(b, 4)]
            ELSE [err |-> "Ok",
                  extension |-> Some(Extension(profile_identifier,
                                               GetU32s(Drop(b, 4), len))),
                  rest |-> Drop(b, 4 + len * 4)]))

PayloadTypeUnmasked(byte) == byte
PayloadTypeOf(byte) == BitAnd(byte, 127)

\* Header::parse: [err, header, rest], rest being what is left in src
HeaderParse(src) ==
    Let(src, LAMBDA b :
        IF Len(b) < 12 THEN [err |-> "NotEnoughData", header |-> None, rest |-> b]
        ELSE Let2(VersionTryFrom(BitAnd(Shr8(b[1], 6), 3)), BitAnd(b[1], 15),
                  LAMBDA version, csrc_count :
            IF ~IsSome(version)
            THEN [err |-> "VersionUnknown", header |-> None, rest |-> Drop(b, 1)]
            ELSE IF Len(b) < 12 + (csrc_count * 4)
            THEN [err |-> "NotEnoughData", header |-> None, rest |-> Drop(b, 1)]
            ELSE Let(ExtensionParse(Drop(b, 12 + (csrc_count * 4)),
                                    BitAnd(Shr8(b[1], 4), 1) > 0), LAMBDA x :
                IF x.err # "Ok" THEN [err |-> x.err, header |-> None, rest |-> x.rest]
                ELSE [err |-> "Ok",
                      header |-> Some(Header(Unwrap(version),
                                             BitAnd(Shr8(b[1], 5), 1) > 0,
                                             BitAnd(Shr8(b[2], 7), 1) > 0,
                                             PayloadTypeOf(b[2]),
                                             GetU16(Drop(b, 2)),
                                             GetU32(Drop(b, 4)),
                                             GetU32(Drop(b, 8)),
                                             GetU32s(Drop(b, 12), csrc_count),
                                             x.extension)),
                      rest |-> x.rest])))

\* --- the headers given to serialize, and the round trip
Versions == {"Version1", "Version2"}
PayloadTypes == {0, 96, 127, 128, 255}
SequenceNumbers == {0, 65535}
Words == {U32(0, 0), U32(65535, 65535), U32(258, 772)}
CsrcLists == {[i \in 1..n |-> U32(i, 65535 - i)] : n \in {0, 1, MaxCsrc - 1, MaxCsrc}}
Extensions ==
    {None} \cup {Some(Extension(p, [i \in 1..k |-> U32(256 * i, i)])) :
                    p \in {0, 65535}, k \in 0..MaxExtensionWords}
RtpHeaders ==
    {Header(v, p, m, pt, sn, ts, ss, cs, x) :
        v \in Versions, p \in BOOLEAN, m \in BOOLEAN, pt \in PayloadTypes,
        sn \in SequenceNumbers, ts \in Words \ {U32(0, 0)}, ss \in Words \ {U32(258, 772)},
        cs \in CsrcLists, x \in Extensions}
\* what follows the header in the packet: nothing, or bytes that read as an extension
Trailers == {<<>>, <<0, 1, 0, 1, 0, 0, 0, 0>>}

InitRtp ==
    /\ IdleExcept("rtp")
    /\ rtpHeader \in RtpHeaders /\ rtpTrailer \in Trailers
    /\ rtpStep = "new" /\ rtpBytes = <<>> /\ rtpSerialized = "None"
    /\ rtpParsed = None /\ rtpRest = <<>>

\* header.serialize(&mut dst) on an empty dst
SerializeHeader ==
    /\ rtpStep = "new"
    /\ \E s \in {HeaderSerialize(rtpHeader)} :
        rtpBytes' = s.bytes /\ rtpSerialized' = s.err
    /\ rtpStep' = "serialized"
    /\ UNCHANGED <<rtpHeader, rtpTrailer, rtpParsed, rtpRest>>
    /\ UnchangedExcept("rtp")

\* Header::parse(&mut src) on the bytes written, followed by the rest of the packet
ParseSerialized ==
    /\ rtpStep = "serialized" /\ rtpSerialized = "Ok"
    /\ \E r \in {HeaderParse(rtpBytes \o rtpTrailer)} :
        rtpParsed' = Some([err |-> r.err, header |-> r.header]) /\ rtpRest' = r.rest
    /\ rtpStep' = "parsed"
    /\ UNCHANGED <<rtpHeader, rtpTrailer, rtpBytes, rtpSerialized>>
    /\ UnchangedExcept("rtp")

NextRtp == SerializeHeader \/ ParseSerialized
SpecRtp == InitRtp /\ [][NextRtp]_vars

-----------------------------------------------------------------------------
(* Properties of the RTP header codec.                                      *)

ValidHeader(h) == h.payload_type \in 0..127 /\ Len(h.csrc) \in 0..15

\* C9 -- RTP header round trip.  For every valid header H (version 1 or 2, any padding
\* and marker flag, payload_type 0..127, 16-bit sequence number, 32-bit timestamp and
\* ssrc, 0..15 CSRC identifiers, optional extension), Header::serialize succeeds and
\* writes serialized_len(H) bytes, and Header::parse on those bytes (followed by
\* anything) returns H and consumes exactly serialized_len(H) bytes.
C9_HeaderRoundTrip ==
    ValidHeader(rtpHeader) =>
        /\ rtpStep # "new" =>
            rtpSerialized = "Ok" /\ Len(rtpBytes) = HeaderSerializedLen(rtpHeader)
        /\ rtpStep = "parsed" =>
            /\ Unwrap(rtpParsed).err = "Ok"
            /\ Unwrap(rtpParsed).header = Some(rtpHeader)
            /\ rtpRest = rtpTrailer
            /\ Len(rtpBytes \o rtpTrailer) - Len(rtpRest) = HeaderSerializedLen(rtpHeader)

\* a header with every flag set, the largest payload type, 15 CSRC identifiers and an
\* extension of two words has been serialized and parsed in front of other bytes
C9_Witness ==
    /\ rtpStep = "parsed" /\ ValidHeader(rtpHeader)
    /\ rtpHeader.padding /\ rtpHeader.marker /\ rtpHeader.payload_type = 127
    /\ Len(rtpHeader.csrc) = 15 /\ IsSome(rtpHeader.extension)
    /\ Len(Unwrap(rtpHeader.extension).data) = 2 /\ rtpTrailer # <<>>
    /\ Unwrap(rtpParsed).header = Some(rtpHeader)

-----------------------------------------------------------------------------
(* rave_sdp: the session description, its Display and Sdp::parse (sdp.rs).  *)

SP == 32
Writeln(s) == s \o <<LN>>
\* the parts joined with one space between them
RECURSIVE JoinSpace(_)
JoinSpace(parts) ==
    Let(parts, LAMBDA ps :
        IF ps = <<>> THEN <<>>
        ELSE IF Len(ps) = 1 THEN ps[1]
        ELSE ps[1] \o <<SP>> \o JoinSpace(Tail(ps)))

\* Display for i64, str::parse::<i64> (an optional sign, then digits)
I64Display(n) == Let(n, LAMBDA k : IF k < 0 THEN <<45>> \o ToDec(0 - k) ELSE ToDec(k))
ParseI64(s) ==
    Let(s, LAMBDA v :
        IF v # <<>> /\ v[1] = 45
        THEN Let(Tail(v), LAMBDA d :
                 IF d # <<>> /\ \A i \in 1..Len(d) : d[i] \in 48..57
                 THEN Some(0 - DecValue(d, 0)) ELSE None)
        ELSE ParseUsize(v))
\* str::parse::<u16>
ParseU16(s) ==
    Let(ParseUsize(s), LAMBDA r : IF IsSome(r) /\ Unwrap(r) > 65535 THEN None ELSE r)

\* --- Display and FromStr of the enumerations
SdpVersionDisplay(v) == <<48>>
SdpVersionFromStr(s) == IF s = <<48>> THEN Some("V0") ELSE None

NetworkTypeDisplay(n) == <<73, 78>>
NetworkTypeFromStr(s) == IF s = <<73, 80, 52>> THEN Some("Internet") ELSE None

AddressTypeDisplay(a) == IF a = "IpV4" THEN <<73, 80, 52>> ELSE <<73, 80, 54>>
AddressTypeFromStr(s) ==
    Let(s, LAMBDA v :
        IF v = <<73, 80, 52>> THEN Some("IpV4")
        ELSE IF v = <<73, 80, 54>> THEN Some("IpV6") ELSE None)

Kinds == {"Video", "Audio", "Text", "Application", "Message"}
KindDisplay(k) ==
    CASE k = "Video" -> <<118, 105, 100, 101, 111>>
      [] k = "Audio" -> <<97, 117, 100, 105, 111>>
      [] k = "Text" -> <<116, 101, 120, 116>>
      [] k = "Application" -> <<97, 112, 112, 108, 105, 99, 97, 116, 105, 111, 110>>
      [] k = "Message" -> <<109, 101, 115, 115, 97, 103, 101>>
KindFromStr(s) ==
    Let({k \in Kinds : KindDisplay(k) = s}, LAMBDA ks :
        IF ks = {} THEN None ELSE Some(CHOOSE k \in ks : TRUE))

ProtocolDisplay(p) == IF p = "RtpAvp" THEN <<82, 84, 80, 47, 65, 86, 80>> ELSE <<82, 84, 80, 47, 83, 65, 86, 80>>
ProtocolFromStr(s) ==
    Let(s, LAMBDA v :
        IF v = <<82, 84, 80, 47, 65, 86, 80>> THEN Some("RtpAvp")
        ELSE IF v = <<82, 84, 80, 47, 83, 65, 86, 80>> THEN Some("RtpSAvp") ELSE None)

\* --- the structures and their Display
Origin(username, session_id, session_version, network_type, address_type, unicast_address) ==
    [username |-> username, session_id |-> session_id,
     session_version |-> session_version, network_type |-> network_type,
     address_type |-> address_type, unicast_address |-> unicast_address]
OriginDisplay(o) ==
    Let(o, LAMBDA v :
        Writeln(JoinSpace(<<v.username, v.session_id, v.session_version,
                            NetworkTypeDisplay(v.network_type),
                            AddressTypeDisplay(v.address_type), v.unicast_address>>)))

Connection(network_type, address_type, address) ==
    [network_type |-> network_type, address_type |-> address_type, address |-> address]
ConnectionDisplay(c) ==
    Let(c, LAMBDA v :
        Writeln(JoinSpace(<<NetworkTypeDisplay(v.network_type),
                            AddressTypeDisplay(v.address_type), v.address>>)))

Bandwidth(type, kilobitrate) == [type |-> type, kilobitrate |-> kilobitrate]
BandwidthDisplay(b) ==
    Let(b, LAMBDA v :
        (IF v.type = "ConferenceTotal" THEN <<67, 84, 58>> ELSE <<65, 83, 58>>) \o ToDec(v.kilobitrate))

TimeActive(start, stop) == [start |-> start, stop |-> stop]
TimeActiveDisplay(t) == Let(t, LAMBDA v : JoinSpace(<<ToDec(v.start), ToDec(v.stop)>>))

RepeatTimes(repeat_interval, active_duration, offsets) ==
    [repeat_interval |-> repeat_interval, active_duration |-> active_duration,
     offsets |-> offsets]
OffsetsFormatted(offsets) ==
    Let(offsets, LAMBDA os :
        IF os # <<>> THEN <<48>>
        ELSE JoinSpace([i \in 1..Len(os) |-> ToDec(os[i])]))
RepeatTimesDisplay(r) ==
    Let(r, LAMBDA v :
        JoinSpace(<<ToDec(v.repeat_interval), ToDec(v.active_duration),
                    OffsetsFormatted(v.offsets)>>))

TimeZoneAdjustment(time, offset) == [time |-> time, offset |-> offset]
TimeZoneAdjustmentDisplay(z) ==
    Let(z, LAMBDA v : JoinSpace(<<ToDec(v.time), I64Display(v.offset)>>))
TimeZoneAdjustmentsDisplay(zs) ==
    Let(zs, LAMBDA v :
        IF v # <<>> THEN JoinSpace([i \in 1..Len(v) |-> TimeZoneAdjustmentDisplay(v[i])])
        ELSE <<48, 32, 48>>)

Repeat(times, timezone_adjustments) ==
    [times |-> times, timezone_adjustments |-> timezone_adjustments]
RepeatDisplay(r) ==
    Let(r, LAMBDA v :
        Writeln(<<114, 61>> \o RepeatTimesDisplay(v.times))
        \o (IF IsSome(v.timezone_adjustments)
            THEN Writeln(<<122, 61>> \o TimeZoneAdjustmentsDisplay(Unwrap(v.timezone_adjustments)))
            ELSE <<>>))

Property(value) == [tag |-> "Property", variable |-> <<>>, value |-> value]
Value(variable, value) == [tag |-> "Value", variable |-> variable, value |-> value]
AttributeDisplay(a) ==
    Let(a, LAMBDA v :
        IF v.tag = "Property" THEN v.value ELSE v.variable \o <<58>> \o v.value)

Media(kind, port, protocol, format) ==
    [kind |-> kind, port |-> port, protocol |-> protocol, format |-> format]
MediaDisplay(m) ==
    Let(m, LAMBDA v :
        Writeln(JoinSpace(<<KindDisplay(v.kind), ToDec(v.port),
                            ProtocolDisplay(v.protocol), ToDec(v.format)>>)))

\* the lines "<prefix><Display of the element>\n" of a list
PrefixedLines(prefix, items, Show(_)) ==
    Let(items, LAMBDA v : Concat([i \in 1..Len(v) |-> Writeln(prefix \o Show(v[i]))]))
\* one optional line
OptionalLine(prefix, field, Show(_)) ==
    Let(field, LAMBDA v : IF IsSome(v) THEN Writeln(prefix \o Show(Unwrap(v))) ELSE <<>>)
Verbatim(s) == s

MediaItem(media, title, connection, bandwidth, attributes) ==
    [media |-> media, title |-> title, connection |-> connection,
     bandwidth |-> bandwidth, attributes |-> attributes]
MediaItemDisplay(item) ==
    Let(item, LAMBDA v :
        Writeln(<<109, 61>> \o MediaDisplay(v.media))
        \o OptionalLine(<<105, 61>>, v.title, Verbatim)
        \o OptionalLine(<<99, 61>>, v.connection, ConnectionDisplay)
        \o PrefixedLines(<<98, 61>>, v.bandwidth, BandwidthDisplay)
        \o PrefixedLines(<<97, 61>>, v.attributes, AttributeDisplay))

\* Display for Sdp
SdpDisplay(sdp) ==
    Let(sdp, LAMBDA v :
        Writeln(<<118, 61>> \o SdpVersionDisplay(v.version))
        \o Writeln(<<111, 61>> \o OriginDisplay(v.origin))
        \o Writeln(<<115, 61>> \o v.session_name)
        \o OptionalLine(<<105, 61>>, v.session_description, Verbatim)
        \o OptionalLine(<<117, 61>>, v.uri, Verbatim)
        \o OptionalLine(<<101, 61>>, v.email, Verbatim)
        \o OptionalLine(<<112, 61>>, v.phone, Verbatim)
        \o OptionalLine(<<99, 61>>, v.connection, ConnectionDisplay)
        \o PrefixedLines(<<98, 61>>, v.bandwidth, BandwidthDisplay)
        \o PrefixedLines(<<116, 61>>, v.time_active, TimeActiveDisplay)
        \o Concat([i \in 1..Len(v.repeats) |-> RepeatDisplay(v.repeats[i])])
        \o PrefixedLines(<<97, 61>>, v.attributes, AttributeDisplay)
        \o Concat([i \in 1..Len(v.media) |-> MediaItemDisplay(v.media[i])]))

\* --- FromStr of the structures: [err, value], err = "Ok" or the name of the error
Ok(value) == [err |-> "Ok", value |-> value]
Err(error) == [err |-> error, value |-> <<>>]

\* next_or_invalid over s.split(' '): Origin::from_str
OriginFromStr(s) ==
    Let(Split(s, SP), LAMBDA parts :
        IF Len(parts) < 4 THEN Err("OriginLineInvalid")
        ELSE Let(NetworkTypeFromStr(parts[4]), LAMBDA network_type :
            IF ~IsSome(network_type) THEN Err("NetworkTypeUnknown")
            ELSE IF Len(parts) < 5 THEN Err("OriginLineInvalid")
            ELSE Let(AddressTypeFromStr(parts[5]), LAMBDA address_type :
                IF ~IsSome(address_type) THEN Err("AddressTypeUnknown")
                ELSE IF Len(parts) < 6 THEN Err("OriginLineInvalid")
                ELSE Ok(Origin(parts[1], parts[2], parts[3], Unwrap(network_type),
                               Unwrap(address_type), parts[6])))))

\* Connection::from_str
ConnectionFromStr(s) ==
    Let(Split(s, SP), LAMBDA parts :
        Let(NetworkTypeFromStr(parts[1]), LAMBDA network_type :
            IF ~IsSome(network_type) THEN Err("NetworkTypeUnknown")
            ELSE IF Len(parts) < 2 THEN Err("ConnectionLineInvalid")
            ELSE Let(AddressTypeFromStr(parts[2]), LAMBDA address_type :
                IF ~IsSome(address_type) THEN Err("AddressTypeUnknown")
                ELSE IF Len(parts) < 3 THEN Err("ConnectionLineInvalid")
                ELSE Ok(Connection(Unwrap(network_type), Unwrap(address_type),
                                   parts[3])))))

\* Bandwidth::from_str
BandwidthFromStr(s) ==
    Let(SplitOnce(s, 58), LAMBDA split_once :
        IF ~IsSome(split_once) THEN Err("BandwidthLineMalformed")
        ELSE Let2(Unwrap(split_once)[1], ParseUsize(Unwrap(split_once)[2]),
                  LAMBDA bandwidth_type, bandwidth :
            IF bandwidth_type = <<67, 84>>
            THEN IF IsSome(bandwidth) THEN Ok(Bandwidth("ConferenceTotal", Unwrap(bandwidth)))
                 ELSE Err("BandwidthValueInvalid")
            ELSE IF bandwidth_type = <<65, 83>>
            THEN IF IsSome(bandwidth)
                 THEN Ok(Bandwidth("ApplicationSpecific", Unwrap(bandwidth)))
                 ELSE Err("BandwidthValueInvalid")
            ELSE Err("BandwidthTypeUnknown")))

\* TimeActive::from_str
TimeActiveFromStr(s) ==
    Let(SplitOnce(s, SP), LAMBDA split_once :
        IF ~IsSome(split_once) THEN Err("TimeMalformed")
        ELSE Let2(ParseUsize(Unwrap(split_once)[1]), ParseUsize(Unwrap(split_once)[2]),
                  LAMBDA start, stop :
            IF IsSome(start) /\ IsSome(stop) THEN Ok(TimeActive(Unwrap(start), Unwrap(stop)))
            ELSE Err("TimeDescriptionInvalid")))

\* parse_time: a number with an optional unit s, m, h or d; None stands for TimeInvalid
StripSuffix(s, b) ==
    Let(s, LAMBDA v : IF v # <<>> /\ v[Len(v)] = b THEN Some(Take(v, Len(v) - 1)) ELSE None)
Scaled(parsed, factor) ==
    Let(parsed, LAMBDA r : IF IsSome(r) THEN Some(Unwrap(r) * factor) ELSE None)
\* parse_time_seconds::<u64> / ::<i64>
ParseTimeSeconds(ss, signed) == IF signed THEN ParseI64(ss) ELSE ParseUsize(ss)
ParseTime(ts, signed) ==
    Let(ts, LAMBDA v :
        IF IsSome(StripSuffix(v, 115)) THEN ParseTimeSeconds(Unwrap(StripSuffix(v, 115)), signed)
        ELSE IF IsSome(StripSuffix(v, 109))
        THEN Scaled(ParseTimeSeconds(Unwrap(StripSuffix(v, 109)), signed), 60)
        ELSE IF IsSome(StripSuffix(v, 104))
        THEN Scaled(ParseTimeSeconds(Unwrap(StripSuffix(v, 104)), signed), 3600)
        ELSE IF IsSome(StripSuffix(v, 100))
        THEN Scaled(ParseTimeSeconds(Unwrap(StripSuffix(v, 100)), signed), 86400)
        ELSE ParseTimeSeconds(v, signed))

\* RepeatTimes::from_str
RepeatTimesFromStr(s) ==
    Let(Split(s, SP), LAMBDA parts :
        Let([i \in 1..Len(parts) |-> ParseTime(parts[i], FALSE)], LAMBDA times :
            IF \E i \in 1..Len(times) : ~IsSome(times[i]) THEN Err("TimeInvalid")
            ELSE IF Len(times) < 3 THEN Err("RepeatTimesLineMalformed")
            ELSE Ok(RepeatTimes(Unwrap(times[1]), Unwrap(times[2]),
                                [i \in 1..(Len(times) - 2) |-> Unwrap(times[i + 2])]))))

\* TimeZoneAdjustment::from_time_and_offset_strings
TimeZoneAdjustmentFromStrings(time, offset) ==
    Let2(ParseUsize(time), ParseTime(offset, TRUE), LAMBDA t, o :
        IF ~IsSome(t) THEN Err("TimeZoneAdjustmentTimeInvalid")
        ELSE IF ~IsSome(o) THEN Err("TimeInvalid")
        ELSE Ok(TimeZoneAdjustment(Unwrap(t), Unwrap(o))))

\* TimeZoneAdjustments::from_str: the parts taken in pairs
RECURSIVE TimeZoneAdjustmentsFromParts(_)
TimeZoneAdjustmentsFromParts(parts) ==
    Let(parts, LAMBDA ps :
        IF ps = <<>> THEN Ok(<<>>)
        ELSE IF Len(ps) = 1 THEN Err("TimeZoneAdjustmentsLineMalformed")
        ELSE Let(TimeZoneAdjustmentFromStrings(ps[1], ps[2]), LAMBDA first :
            IF first.err # "Ok" THEN Err(first.err)
            ELSE Let(TimeZoneAdjustmentsFromParts(Drop(ps, 2)), LAMBDA others :
                IF others.err # "Ok" THEN Err(others.err)
                ELSE Ok(<<first.value>> \o others.value))))
TimeZoneAdjustmentsFromStr(s) == TimeZoneAdjustmentsFromParts(Split(s, SP))

\* Attribute::from_str
AttributeFromStr(s) ==
    Let2(s, SplitOnce(s, 58), LAMBDA v, split_once :
        IF IsSome(split_once) THEN Ok(Value(Unwrap(split_once)[1], Unwrap(split_once)[2]))
        ELSE Ok(Property(v)))

\* Media::from_str
MediaFromStr(s) ==
    Let(Split(s, SP), LAMBDA parts :
        Let(KindFromStr(parts[1]), LAMBDA kind :
            IF ~IsSome(kind) THEN Err("KindUnknown")
            ELSE IF Len(parts) < 2 THEN Err("MediaLineInvalid")
            ELSE Let(ParseU16(parts[2]), LAMBDA port :
                IF ~IsSome(port) THEN Err("MediaPortInvalid")
                ELSE IF Len(parts) < 3 THEN Err("MediaLineInvalid")
                ELSE Let(ProtocolFromStr(parts[3]), LAMBDA protocol :
                    IF ~IsSome(protocol) THEN Err("ProtocolUnknown")
                    ELSE IF Len(parts) < 4 THEN Err("MediaLineInvalid")
                    ELSE Let(ParseUsize(parts[4]), LAMBDA format :
                        IF ~IsSome(format) THEN Err("MediaFormatInvalid")
                        ELSE Ok(Media(Unwrap(kind), Unwrap(port), Unwrap(protocol),
                                      Unwrap(format))))))))

\* --- Sdp::parse
\* str::lines: the text split at "\n", a final empty piece dropped, and one "\r" at
\* the end of each line dropped
Lines(text) ==
    Let(Split(text, LN), LAMBDA pieces :
        Let(IF pieces[Len(pieces)] = <<>> THEN Take(pieces, Len(pieces) - 1) ELSE pieces,
            LAMBDA ls :
            [i \in 1..Len(ls) |->
                IF ls[i] # <<>> /\ ls[i][Len(ls[i])] = CR
                THEN Take(ls[i], Len(ls[i]) - 1) ELSE ls[i]]))

\* the local variables of Sdp::parse before the first line
NewSdpFields ==
    [version |-> None, origin |-> None, session_name |-> None,
     session_description |-> None, uri |-> None, email |-> None, phone |-> None,
     connection |-> None, bandwidth |-> <<>>, time_active |-> <<>>, repeats |-> <<>>,
     attributes |-> <<>>, media |-> <<>>]

\* media.last_mut() is Some: the field of the last media item is set or extended
InMediaScope(acc) == acc.media # <<>>
SetOnLastMedia(acc, field, value) ==
    [acc EXCEPT !.media[Len(acc.media)][field] = value]
PushOnFirstMedia(acc, field, value) ==
    [acc EXCEPT !.media[1][field] = Append(@, value)]
PushOnLastMedia(acc, field, value) ==
    [acc EXCEPT !.media[Len(acc.media)][field] = Append(@, value)]

\* the body of the loop of Sdp::parse for one line: [err, value], value being the
\* local variables after the line
SdpParseLine(fields, raw) ==
    Let2(fields, Trim(raw), LAMBDA acc, line :
        IF line = <<>> THEN Ok(acc)
        ELSE IF Len(line) < 2 THEN Err("LinePrefixInvalid")
        ELSE Let2(Take(line, 2), Drop(line, 2), LAMBDA prefix, rest :
            CASE prefix = <<118, 61>> ->
                    IF IsSome(SdpVersionFromStr(rest))
                    THEN Ok([acc EXCEPT !.version = SdpVersionFromStr(rest)])
                    ELSE Err("VersionUnknown")
              [] prefix = <<111, 61>> ->
                    Let(OriginFromStr(rest), LAMBDA r :
                        IF r.err # "Ok" THEN r
                        ELSE Ok([acc EXCEPT !.origin = Some(r.value)]))
              [] prefix = <<115, 61>> -> Ok([acc EXCEPT !.session_name = Some(rest)])
              [] prefix = <<105, 61>> ->
                    IF InMediaScope(acc) THEN Ok(SetOnLastMedia(acc, "title", Some(rest)))
                    ELSE Ok([acc EXCEPT !.session_description = Some(rest)])
              [] prefix = <<117, 61>> -> Ok([acc EXCEPT !.uri = Some(rest)])
              [] prefix = <<101, 61>> -> Ok([acc EXCEPT !.email = Some(rest)])
              [] prefix = <<112, 61>> -> Ok([acc EXCEPT !.phone = Some(rest)])
              [] prefix = <<99, 61>> ->
                    Let(ConnectionFromStr(rest), LAMBDA r :
                        IF r.err # "Ok" THEN r
                        ELSE IF InMediaScope(acc)
                        THEN Ok(SetOnLastMedia(acc, "connection", Some(r.value)))
                        ELSE Ok([acc EXCEPT !.connection = Some(r.value)]))
              [] prefix = <<98, 61>> ->
                    Let(BandwidthFromStr(rest), LAMBDA r :
                        IF r.err # "Ok" THEN r
                        ELSE IF InMediaScope(acc)
                        THEN Ok(PushOnLastMedia(acc, "bandwidth", r.value))
                        ELSE Ok([acc EXCEPT !.bandwidth = Append(@, r.value)]))
              [] prefix = <<116, 61>> ->
                    Let(TimeActiveFromStr(rest), LAMBDA r :
                        IF r.err # "Ok" THEN r
                        ELSE Ok([acc EXCEPT !.time_active = Append(@, r.value)]))
              [] prefix = <<114, 61>> ->
                    Let(RepeatTimesFromStr(rest), LAMBDA r :
                        IF r.err # "Ok" THEN r
                        ELSE Ok([acc EXCEPT !.repeats = Append(@, Repeat(r.value, None))]))
              [] prefix = <<122, 61>> ->
                    IF acc.repeats = <<>> THEN Err("TimezoneAdjustmentsWithoutRepeatTimes")
                    ELSE Let(TimeZoneAdjustmentsFromStr(rest), LAMBDA r :
                        IF r.err # "Ok" THEN r
                        ELSE Ok([acc EXCEPT !.repeats[Len(acc.repeats)].timezone_adjustments
                                                = Some(r.value)]))
              [] prefix = <<97, 61>> ->
                    Let(AttributeFromStr(rest), LAMBDA r :
                        IF InMediaScope(acc)
                        THEN Ok(PushOnLastMedia(acc, "attributes", r.value))
                        ELSE Ok([acc EXCEPT !.attributes = Append(@, r.value)]))
              [] prefix = <<109, 61>> ->
                    Let(MediaFromStr(rest), LAMBDA r :
                        IF r.err # "Ok" THEN r
                        ELSE Ok([acc EXCEPT !.media =
                                    Append(@, MediaItem(r.value, None, None, <<>>, <<>>))]))
              [] OTHER -> Err("LinePrefixInvalid")))

\* Sdp::parse after the loop: the checks and the Sdp built
SdpParseEnd(fields) ==
    Let(fields, LAMBDA acc :
        IF ~IsSome(acc.version) THEN Err("VersionMissing")
        ELSE IF ~IsSome(acc.origin) THEN Err("OriginMissing")
        ELSE IF ~IsSome(acc.session_name) THEN Err("SessionNameMissing")
        ELSE IF acc.time_active = <<>> THEN Err("TimeActiveMissing")
        ELSE IF /\ ~IsSome(acc.connection)
                /\ ~(\A i \in 1..Len(acc.media) : IsSome(acc.media[i].connection))
        THEN Err("ConnectionMissing")
        ELSE Ok([acc EXCEPT !.version = Unwrap(acc.version),
                            !.origin = Unwrap(acc.origin),
                            !.session_name = Unwrap(acc.session_name)]))

\* --- the descriptions displayed and parsed
Address == <<49, 46, 50, 46, 51, 46, 52>>
Origins == {Origin(<<45>>, <<48>>, <<48>>, "Internet", a, Address) : a \in {"IpV4", "IpV6"}}
SomeConnection == Some(Connection("Internet", "IpV4", Address))
Bandwidths == {<<>>, <<Bandwidth("ConferenceTotal", 64), Bandwidth("ApplicationSpecific", 8)>>}
TimesActive == {<<TimeActive(0, 0)>>, <<TimeActive(1, 2), TimeActive(0, 0)>>}
RepeatLists ==
    {<<>>,
     <<Repeat(RepeatTimes(7, 3, <<0>>), None)>>,
     <<Repeat(RepeatTimes(7, 3, <<0, 25>>), Some(<<>>))>>,
     <<Repeat(RepeatTimes(7, 3, <<>>), None),
       Repeat(RepeatTimes(60, 5, <<0>>), Some(<<TimeZoneAdjustment(5, -1)>>))>>}
AttributeLists == {<<>>, <<Property(<<114, 101, 99, 118, 111, 110, 108, 121>>), Value(<<114, 116, 112, 109, 97, 112>>, <<57, 54, 32, 72, 50, 54, 52, 47, 57, 48, 48, 48, 48>>)>>}
VideoItem(connection) ==
    MediaItem(Media("Video", 0, "RtpAvp", 96), Some(<<99, 97, 109>>), connection,
              <<Bandwidth("ApplicationSpecific", 8)>>, <<Property(<<115, 101, 110, 100, 111, 110, 108, 121>>)>>)
AudioItem(connection) ==
    MediaItem(Media("Audio", 5004, "RtpSAvp", 97), None, connection, <<>>, <<>>)
MediaLists ==
    {<<>>, <<VideoItem(None)>>, <<VideoItem(SomeConnection)>>,
     <<VideoItem(SomeConnection), AudioItem(SomeConnection)>>,
     <<VideoItem(SomeConnection), AudioItem(None)>>}
Contacts == {None, Some(<<120>>)}
SdpModels ==
    {[version |-> "V0", origin |-> o, session_name |-> <<88>>, session_description |-> d,
      uri |-> u, email |-> u, phone |-> u, connection |-> c, bandwidth |-> b,
      time_active |-> t, repeats |-> r, attributes |-> a, media |-> m] :
        o \in Origins, d \in Contacts, u \in Contacts, c \in {None, SomeConnection},
        b \in Bandwidths, t \in TimesActive, r \in RepeatLists, a \in AttributeLists,
        m \in MediaLists}

\* descriptions written by someone else, given to Sdp::parse as they are
TextLine(on, line) == IF on THEN Writeln(line) ELSE <<>>
OtherTexts ==
    {Writeln(<<118, 61, 48>>) \o Writeln(<<111, 61, 45, 32, 48, 32, 48, 32>> \o n \o <<32, 73, 80, 52, 32, 49, 46, 50, 46, 51, 46, 52>>) \o Writeln(<<115, 61, 88>>)
     \o TextLine(c, <<99, 61>> \o n \o <<32, 73, 80, 52, 32, 49, 46, 50, 46, 51, 46, 52>>) \o Writeln(<<116, 61, 48, 32, 48>>)
     \o TextLine(z, <<122, 61, 48, 32, 48>>) \o TextLine(r, <<114, 61, 55, 100, 32, 49, 104, 32, 48, 32, 50, 53, 104>>) \o TextLine(r, <<122, 61, 53, 32, 45, 49, 104>>)
     \o TextLine(m >= 1, <<109, 61, 118, 105, 100, 101, 111, 32, 48, 32, 82, 84, 80, 47, 65, 86, 80, 32, 57, 54>>)
     \o TextLine(m >= 1 /\ mc, <<99, 61>> \o n \o <<32, 73, 80, 52, 32, 49, 46, 50, 46, 51, 46, 52>>)
     \o TextLine(m >= 1, <<97, 61, 115, 101, 110, 100, 111, 110, 108, 121>>)
     \o TextLine(m >= 2, <<109, 61, 97, 117, 100, 105, 111, 32, 53, 48, 48, 52, 32, 82, 84, 80, 47, 83, 65, 86, 80, 32, 57, 55>>)
     \o TextLine(m >= 2, <<105, 61, 109, 105, 99>>) :
        n \in {<<73, 78>>, <<73, 80, 52>>}, c \in BOOLEAN, z \in BOOLEAN, r \in BOOLEAN, m \in 0..2,
        mc \in BOOLEAN}

InitSdp ==
    /\ IdleExcept("sdp")
    /\ \/ sdpModel \in {Some(sdp) : sdp \in SdpModels} /\ sdpText = <<>> /\ sdpPhase = "new"
       \/ sdpModel = None /\ sdpText \in OtherTexts /\ sdpPhase = "text"
    /\ sdpLines = <<>> /\ sdpFields = <<>> /\ sdpResult = "None" /\ sdpParsed = None

\* sdp.to_string()
DisplaySdp ==
    /\ sdpPhase = "new"
    /\ sdpText' = SdpDisplay(Unwrap(sdpModel))
    /\ sdpPhase' = "text"
    /\ UNCHANGED <<sdpModel, sdpLines, sdpFields, sdpResult, sdpParsed>>
    /\ UnchangedExcept("sdp")

\* Sdp::parse(text) is called: the local variables are set up, s.lines() starts
ParseBegin ==
    /\ sdpPhase = "text"
    /\ sdpFields' = NewSdpFields
    /\ sdpLines' = Lines(sdpText)
    /\ sdpPhase' = "parsing"
    /\ UNCHANGED <<sdpModel, sdpText, sdpResult, sdpParsed>>
    /\ UnchangedExcept("sdp")

\* one round of the loop; an error returns from parse
ParseLine ==
    /\ sdpPhase = "parsing" /\ sdpLines # <<>>
    /\ \E r \in {SdpParseLine(sdpFields, Head(sdpLines))} :
        IF r.err = "Ok"
        THEN /\ sdpFields' = r.value /\ sdpLines' = Tail(sdpLines)
             /\ UNCHANGED <<sdpPhase, sdpResult>>
        ELSE /\ sdpResult' = r.err /\ sdpPhase' = "parsed"
             /\ UNCHANGED <<sdpFields, sdpLines>>
    /\ UNCHANGED <<sdpModel, sdpText, sdpParsed>>
    /\ UnchangedExcept("sdp")

\* the lines are exhausted: the final checks, and the Sdp returned
ParseEnd ==
    /\ sdpPhase = "parsing" /\ sdpLines = <<>>
    /\ \E r \in {SdpParseEnd(sdpFields)} :
        /\ sdpResult' = r.err
        /\ sdpParsed' = IF r.err = "Ok" THEN Some(r.value) ELSE None
    /\ sdpPhase' = "parsed"
    /\ UNCHANGED <<sdpModel, sdpText, sdpLines, sdpFields>>
    /\ UnchangedExcept("sdp")

NextSdp == DisplaySdp \/ ParseBegin \/ ParseLine \/ ParseEnd
SpecSdp == InitSdp /\ [][NextSdp]_vars

-----------------------------------------------------------------------------
(* Properties of the SDP model.                                             *)

\* the validity rules of a description
SdpValid(sdp) ==
    /\ sdp.version = "V0" /\ sdp.origin.network_type = "Internet"
    /\ sdp.time_active # <<>>
    /\ \/ IsSome(sdp.connection)
       \/ \A i \in 1..Len(sdp.media) : IsSome(sdp.media[i].connection)

\* C10 -- SDP round trip.  For every Sdp model that satisfies the validity rules,
\* Sdp::parse(model.to_string()) succeeds and returns a model equal to the original in
\* every field, including the offsets of each repeat line, the timezone adjustments
\* bound to it, and the per-media title, connection, bandwidth and attributes.
C10_RoundTrip ==
    (sdpPhase = "parsed" /\ IsSome(sdpModel) /\ SdpValid(Unwrap(sdpModel))) =>
        sdpResult = "Ok" /\ sdpParsed = sdpModel

-----------------------------------------------------------------------------
(* rave_rtsp: serialize.rs followed by a fresh Parser (parse_and_into).      *)

\* messages without body: first lines and header maps of every shape the types allow
RoundTripUris == {<<114, 116, 115, 112, 58, 47, 47, 104, 47, 109>>, <<42>>, <<47, 109>>}
RoundTripReasons == {<<79, 75>>, <<78, 111, 116, 32, 70, 111, 117, 110, 100>>, <<>>, <<32, 79, 75>>}
RoundTripHeaders ==
    {EmptyHeaders,
     HeadersInsert(EmptyHeaders, H_CSeq, <<49>>),
     HeadersInsert(HeadersInsert(EmptyHeaders, H_CSeq, <<50>>), <<88, 32, 89>>, <<97, 58, 98, 32, 99>>),
     HeadersInsert(EmptyHeaders, <<65>>, <<>>),
     HeadersInsert(EmptyHeaders, <<65>>, <<32, 98>>),
     HeadersInsert(EmptyHeaders, H_ContentLength, <<48>>),
     HeadersInsert(EmptyHeaders, H_ContentLength, <<53>>)}
RoundTripMessages ==
    {Request(m, u, v, h, None) :
        m \in {"Options", "GetParameter"}, u \in RoundTripUris, v \in {"V1", "V2"},
        h \in RoundTripHeaders}
    \cup {Response(v, s, r, h, None) :
            v \in {"V1", "V2"}, s \in {200, 404}, r \in RoundTripReasons,
            h \in RoundTripHeaders}

InitRoundTrip ==
    /\ expected \in {<<m>> : m \in RoundTripMessages}
    /\ stream = <<>>
    /\ delivered = 0
    /\ buffer = <<>>
    /\ parser = NewParser
    /\ codec = NewCodec
    /\ output = <<>>
    /\ lastStatus = "None"
    /\ pending = FALSE
    /\ doneAt = <<>>
    /\ split = FALSE
    /\ IdleExcept("rtsp")

\* message.serialize(&mut dst)
SerializeExpected ==
    /\ stream = <<>>
    /\ \E r \in {SerializeMessage(expected[1])} :
           /\ IsSome(r)
           /\ stream' = Unwrap(r)
    /\ UNCHANGED <<expected, delivered, buffer, parser, codec, output, lastStatus,
                   pending, doneAt, split>>
    /\ UnchangedExcept("rtsp")

\* the serialized bytes are handed to the parser in one piece
ExtendAll == delivered = 0 /\ Extend(Len(stream))

NextRoundTrip == SerializeExpected \/ ExtendAll \/ ParseAfterChunk
SpecRoundTrip == InitRoundTrip /\ [][NextRoundTrip]_vars

IsTrimmed(s) == Trim(s) = s
NoLineTerminator(s) == \A i \in 1..Len(s) : s[i] # CR /\ s[i] # LN
\* header names and values are trimmed and free of line terminators, names free of ':'
HeadersPlain(h) ==
    \A k \in DOMAIN h :
        /\ IsTrimmed(k) /\ NoLineTerminator(k) /\ \A i \in 1..Len(k) : k[i] # 58
        /\ IsTrimmed(h[k]) /\ NoLineTerminator(h[k])
\* the domain of the round trip as stated: no body, version 1.0 or 2.0, plain headers
RoundTripDomain(m) ==
    /\ m.body = None
    /\ m.version \in {"V1", "V2"}
    /\ HeadersPlain(m.headers)
\* what the parser needs besides: a request URI that is absolute or "*", a reason
\* phrase that is not empty and trimmed, and no Content-Length other than 0
FirstLinePlain(m) ==
    IF m.kind = "request"
    THEN m.uri = <<42>> \/ UriHasAuthority(m.uri)
    ELSE m.reason # <<>> /\ IsTrimmed(m.reason) /\ NoLineTerminator(m.reason)
NoContentExpected(m) ==
    H_ContentLength \in DOMAIN m.headers => m.headers[H_ContentLength] = <<48>>
\* the first-line fields and the header mapping of two messages agree
SameHead(a, b) ==
    /\ a.kind = b.kind
    /\ a.method = b.method /\ a.uri = b.uri /\ a.version = b.version
    /\ a.status = b.status /\ a.reason = b.reason
    /\ a.headers = b.headers
RoundTripParsed == delivered > 0 /\ ~pending
RoundTripHolds ==
    /\ lastStatus = "Done"
    /\ Len(output) = 1
    /\ SameHead(output[1], expected[1])

\* C11 as stated -- RTSP round trip without body.  For every request or response M
\* without body whose version is 1.0 or 2.0 and whose header names and values are
\* trimmed and free of line terminators (names free of ':'), parsing the bytes written
\* by serialize(M) with a fresh Parser returns Done and a message with the same
\* first-line fields and the same header name-to-value mapping.
C11_RoundTripAsStated ==
    (RoundTripParsed /\ RoundTripDomain(expected[1])) => RoundTripHolds

\* C11 -- RTSP round trip without body, on the messages the parser accepts.  For every
\* request whose URI is absolute or "*", and every response whose reason phrase is not
\* empty, trimmed and free of line terminators, without body and without a
\* Content-Length header other than 0, whose version is 1.0 or 2.0 and whose header
\* names and values are trimmed and free of line terminators (names free of ':'),
\* parsing the bytes written by serialize(M) with a fresh Parser returns Done and a
\* message with the same first-line fields and the same header name-to-value mapping.
C11_RoundTrip ==
    (/\ RoundTripParsed
     /\ RoundTripDomain(expected[1])
     /\ FirstLinePlain(expected[1])
     /\ NoContentExpected(expected[1])) => RoundTripHolds

\* a 404 "Not Found" response with a header value that holds a colon came back
C11_Witness ==
    /\ RoundTripParsed
    /\ lastStatus = "Done"
    /\ expected[1].kind = "response"
    /\ expected[1].reason = <<78, 111, 116, 32, 70, 111, 117, 110, 100>>
    /\ <<88, 32, 89>> \in DOMAIN expected[1].headers
    /\ SameHead(output[1], expected[1])

-----------------------------------------------------------------------------
(* rave_rtp: one packetizer over the calls of a stream (common.rs 56-83).    *)

\* calls made on one packetizer
MaxPacketizeCalls == 3
\* the access units given to it: one or two NAL units, short and long
StreamedAccessUnits ==
    {[i \in 1..Len(lens) |-> NalUnit(i, lens[i])] :
        lens \in UNION {[1..n -> {1, 4, MaxNalLen}] : n \in 1..2}}

InitPacketizer ==
    /\ pzMode \in {0, 1}
    /\ pzMtu \in {HeaderLen + 3, HeaderLen + 5}
    /\ pzInitial \in InitialSeqs
    /\ pzSeq = pzInitial
    /\ pzReturned = <<>>
    /\ pzFailed = FALSE
    /\ IdleExcept("packetizer")

\* packetizer.packetize(data, timestamp)?: the caller gets the packets or the error
PacketizeCall ==
    /\ Len(pzReturned) < MaxPacketizeCalls
    /\ \E data \in StreamedAccessUnits, ts \in Timestamps :
         \E r \in {H264Packetize(pzMode, pzSeq, data, ts, pzMtu, TRUE)} :
            /\ r.err # "Panic"
            /\ pzSeq' = r.seq
            /\ pzReturned' = Append(pzReturned,
                                    IF r.err = ""
                                    THEN [i \in 1..Len(r.packets) |->
                                            r.packets[i].sequence_number]
                                    ELSE <<>>)
            /\ pzFailed' = (pzFailed \/ r.err # "")
    /\ UNCHANGED <<pzMode, pzMtu, pzInitial>>
    /\ UnchangedExcept("packetizer")

NextPacketizer == PacketizeCall
SpecPacketizer == InitPacketizer /\ [][NextPacketizer]_vars

\* each number is the one before plus 1 modulo 65536, the first one is first
ConsecutiveFrom(first, numbers) ==
    \A i \in 1..Len(numbers) : numbers[i] = (first + i - 1) % 65536

-----------------------------------------------------------------------------
(* rave_rtp: a depacketizer fed packets in any order (h264.rs 394-517).      *)

\* packets given to one depacketizer
MaxFed == 4
\* FU-A payloads (indicator 0x7c, type 5) with every start / end combination, with and
\* without data, next to a single NAL unit, a STAP-A and a packet of one byte
FuHeaders == {128 + 5, 5, 64 + 5, 128 + 64 + 5}
FedPayloads ==
    {<<124, h>> \o d : h \in FuHeaders, d \in {<<>>, <<7>>}}
    \cup {<<65, 1>>, <<24, 0, 1, 65>>, <<124>>}

InitDepacketizer ==
    /\ mode = 1
    /\ mtu = 0
    /\ seqNo = 0
    /\ au = <<>>
    /\ auTimestamp = 0
    /\ pktResult = "None"
    /\ packets = <<>>
    /\ fragBuf = None
    /\ fed = 0
    /\ nals = <<>>
    /\ depResult = "None"
    /\ IdleExcept("h264")

\* depacketizer.depacketize(&packet) for a packet that arrives from the network
DepacketizeArrived ==
    /\ fed < MaxFed
    /\ \E payload \in FedPayloads :
         \E r \in {H264Depacketize(fragBuf, payload)} :
            /\ packets' = Append(packets, [payload |-> payload])
            /\ fragBuf' = r.buf
            /\ nals' = nals \o r.nals
            /\ depResult' = IF r.err = "" THEN "Ok" ELSE r.err
    /\ fed' = fed + 1
    /\ UNCHANGED <<mode, mtu, seqNo, au, auTimestamp, pktResult>>
    /\ UnchangedExcept("h264")

NextDepacketizer == DepacketizeArrived
SpecDepacketizer == InitDepacketizer /\ [][NextDepacketizer]_vars

\* the packet is an FU-A packet with its FU header
IsFuA(payload) == Len(payload) >= 2 /\ BitAnd(payload[1], 31) = 28
FuStart(payload) == BitAnd(payload[2], 128) > 0
FuEnd(payload) == BitAnd(payload[2], 64) > 0
\* the call just made failed with err, emitted nothing and left the buffer alone
FailedUntouched(err) ==
    /\ depResult' = err
    /\ nals' = nals
    /\ fragBuf' = fragBuf

\* C13 -- FU-A protocol errors in H264Depacketizer.  An FU-A packet with start set and
\* end clear that arrives while a fragment is in progress fails with
\* H264FragmentedStateAlreadyStarted; an FU-A packet with start clear (end clear or
\* set) that arrives while no fragment is in progress fails with
\* H264FragmentedStateNeverStarted; in both cases no NAL unit is emitted and the
\* fragment buffer is left exactly as it was before the call.
C13_DepacketizeStep ==
    \A p \in {packets'[Len(packets')].payload} :
        IsFuA(p) =>
            /\ (FuStart(p) /\ ~FuEnd(p) /\ IsSome(fragBuf)) =>
                   FailedUntouched("H264FragmentedStateAlreadyStarted")
            /\ (~FuStart(p) /\ ~IsSome(fragBuf)) =>
                   FailedUntouched("H264FragmentedStateNeverStarted")
C13_FuaProtocolErrors == [][C13_DepacketizeStep]_vars

\* a start fragment arrived in the middle of a fragment whose data is kept, after an
\* end fragment had arrived with no fragment in progress
C13_Witness ==
    /\ depResult = "H264FragmentedStateAlreadyStarted"
    /\ fragBuf = Some(<<7>>)
    /\ \E i \in 1..Len(packets) :
           /\ IsFuA(packets[i].payload) /\ ~FuStart(packets[i].payload)
           /\ \A j \in 1..(i - 1) : ~IsFuA(packets[j].payload)

-----------------------------------------------------------------------------
(* rave_sdp: Builder::add_media (builder.rs) and the H.264 codec parameters *)
(* (codec/h264.rs).                                                         *)

\* add_media calls made on one builder
MaxAddMedia == 34

\* format!("{b:02x}")
HexDigit(d) == IF d < 10 THEN 48 + d ELSE 97 + (d - 10)
Hex2(b) == <<HexDigit(b \div 16), HexDigit(b % 16)>>
\* the base64 alphabet of the STANDARD engine
Base64Char(v) ==
    IF v < 26 THEN 65 + v
    ELSE IF v < 52 THEN 97 + (v - 26)
    ELSE IF v < 62 THEN 48 + (v - 52)
    ELSE IF v = 62 THEN 43 ELSE 47
\* base64::engine::general_purpose::STANDARD_NO_PAD.encode(bytes)
RECURSIVE Base64Encode(_)
Base64Encode(bytes) ==
    IF bytes = <<>> THEN <<>>
    ELSE IF Len(bytes) = 1
    THEN <<Base64Char(bytes[1] \div 4), Base64Char((bytes[1] % 4) * 16)>>
    ELSE IF Len(bytes) = 2
    THEN <<Base64Char(bytes[1] \div 4),
           Base64Char((bytes[1] % 4) * 16 + bytes[2] \div 16),
           Base64Char((bytes[2] % 16) * 4)>>
    ELSE <<Base64Char(bytes[1] \div 4),
           Base64Char((bytes[1] % 4) * 16 + bytes[2] \div 16),
           Base64Char((bytes[2] % 16) * 4 + bytes[3] \div 64),
           Base64Char(bytes[3] % 64)>> \o Base64Encode(Drop(bytes, 3))

\* parameter_sets.join(",")
RECURSIVE JoinComma(_)
JoinComma(parts) ==
    IF parts = <<>> THEN <<>>
    ELSE IF Len(parts) = 1 THEN parts[1]
    ELSE parts[1] \o <<44>> \o JoinComma(Tail(parts))

\* codec::h264::Parameters
H264Parameters(sps, pps, packetization_mode) ==
    [sps |-> sps, pps |-> pps, packetization_mode |-> packetization_mode]
\* Parameters::rtpmap_attribute
RtpmapAttribute(payload_type) == Value(<<114, 116, 112, 109, 97, 112>>, ToDec(payload_type) \o <<32, 72, 50, 54, 52, 47, 57, 48, 48, 48, 48>>)
\* Parameters::fmtp_attribute: None is the panic of self.sps[1..4] on a short SPS
FmtpAttribute(params, payload_type) ==
    Let(params, LAMBDA p :
        IF Len(p.sps) < 4 THEN None
        ELSE Some(Value(<<102, 109, 116, 112>>,
                 ToDec(payload_type) \o <<32, 112, 97, 99, 107, 101, 116, 105, 122, 97, 116, 105, 111, 110, 45, 109, 111, 100, 101, 61>> \o ToDec(p.packetization_mode)
                 \o <<59, 32, 112, 114, 111, 102, 105, 108, 101, 45, 108, 101, 118, 101, 108, 45, 105, 100, 61>> \o Hex2(p.sps[2]) \o Hex2(p.sps[3]) \o Hex2(p.sps[4])
                 \o <<59, 32, 115, 112, 114, 111, 112, 45, 112, 97, 114, 97, 109, 101, 116, 101, 114, 45, 115, 101, 116, 115, 61>>
                 \o JoinComma(<<Base64Encode(p.sps)>>
                              \o [i \in 1..Len(p.pps) |-> Base64Encode(p.pps[i])]))))
\* Parameters::media_attributes: None is the panic
MediaAttributes(params, dynamic_payload_type) ==
    Let(FmtpAttribute(params, dynamic_payload_type), LAMBDA fmtp :
        IF fmtp = None THEN None
        ELSE Some(<<RtpmapAttribute(dynamic_payload_type), Unwrap(fmtp)>>))

Directions == {"ReceiveOnly", "SendOnly", "SendAndReceive"}
DirectionDisplay(d) ==
    CASE d = "ReceiveOnly" -> <<114, 101, 99, 118, 111, 110, 108, 121>>
      [] d = "SendOnly" -> <<115, 101, 110, 100, 111, 110, 108, 121>>
      [] d = "SendAndReceive" -> <<115, 101, 110, 100, 114, 101, 99, 118>>

\* Builder::DYNAMIC_PAYLOAD_TYPE_RANGE, and the same range with its end included
DYNAMIC_PAYLOAD_TYPE_RANGE == 96..127
DynamicPayloadTypeRangeInclusive == 96..128
\* DYNAMIC_PAYLOAD_TYPE_RANGE.contains(&dynamic_payload_type)
InRangeInclusive(dynamic_payload_type) ==
    dynamic_payload_type \in DynamicPayloadTypeRangeInclusive
InRange(dynamic_payload_type) == dynamic_payload_type \in DYNAMIC_PAYLOAD_TYPE_RANGE

\* Builder::add_media: the media list and the counter after the call and its result
AddMedia(media, counter, kind, title, port, protocol, direction, codec_parameters) ==
    IF ~InRange(counter)
    THEN [media |-> media, counter |-> counter, result |-> "TooManyMediaItems"]
    ELSE Let(MediaAttributes(codec_parameters, counter), LAMBDA attributes :
             IF attributes = None
             THEN [media |-> media, counter |-> counter + 1, result |-> "Panic"]
             ELSE [media |-> Append(media,
                                    MediaItem(Media(kind, port, protocol, counter),
                                              Some(title), None, <<>>,
                                              Unwrap(attributes)
                                              \o <<Property(DirectionDisplay(direction))>>)),
                   counter |-> counter + 1, result |-> "Ok"])

\* the arguments of the calls: what the caller streams, and an SPS cut short
SpsSets == {<<103, 66, 0, 31, 150>>, <<103, 100, 255, 10>>, <<103, 66>>}
PpsSets == {<<>>, << <<104, 206>> >>, << <<104>>, <<104, 206, 60, 128>> >>}
AddMediaInputs ==
    [kind : {"Video", "Audio"}, title : {<<99, 97, 109>>}, port : {0, 5004},
     protocol : {"RtpAvp"}, direction : Directions,
     codec_parameters : {H264Parameters(sps, pps, pm) :
                            sps \in SpsSets, pps \in PpsSets, pm \in {0, 1}}]

\* Builder::new
InitBuilder ==
    /\ builderInput \in AddMediaInputs
    /\ builderMedia = <<>>
    /\ builderCounter = 96
    /\ builderCalls = 0
    /\ builderResult = "None"
    /\ IdleExcept("builder")

\* builder.add_media(kind, title, port, protocol, direction, codec_parameters); a call
\* that panics ends the use of the builder
AddMediaCall ==
    /\ builderCalls < MaxAddMedia
    /\ builderResult # "Panic"
    /\ \E r \in {AddMedia(builderMedia, builderCounter, builderInput.kind,
                          builderInput.title, builderInput.port, builderInput.protocol,
                          builderInput.direction, builderInput.codec_parameters)} :
           /\ builderMedia' = r.media
           /\ builderCounter' = r.counter
           /\ builderResult' = r.result
    /\ builderCalls' = builderCalls + 1
    /\ UNCHANGED builderInput
    /\ UnchangedExcept("builder")

NextBuilder == AddMediaCall
SpecBuilder == InitBuilder /\ [][NextBuilder]_vars

\* the attribute is a value attribute of this name whose value starts with the payload
\* type followed by a space
NamesPayloadType(attribute, name, payload_type) ==
    /\ attribute.tag = "Value"
    /\ attribute.variable = name
    /\ StartsWith(attribute.value, ToDec(payload_type) \o <<32>>)

-----------------------------------------------------------------------------
(* The connection requirement of Sdp::parse (sdp.rs 192-200).               *)

\* what a text holds, read off its lines: the m= lines, a c= line before the first of
\* them, a c= line in the section of each of them
MediaLineNumbers(lines) == {i \in 1..Len(lines) : StartsWith(lines[i], <<109, 61>>)}
HasSessionConnection(lines) ==
    \E i \in 1..Len(lines) :
        /\ StartsWith(lines[i], <<99, 61>>)
        /\ \A j \in MediaLineNumbers(lines) : i < j
EveryMediaHasConnection(lines) ==
    \A j \in MediaLineNumbers(lines) :
        \E i \in (j + 1)..Len(lines) :
            /\ StartsWith(lines[i], <<99, 61>>)
            /\ \A k \in MediaLineNumbers(lines) : ~(j < k /\ k < i)

\* C15 -- SDP connection requirement.  Sdp::parse of a description that is valid in
\* every other respect (no other error is reported) returns ConnectionMissing whenever
\* it has no session-level c= line and not every media item carries its own c= line,
\* and this includes a description with no media item at all; it succeeds when a
\* session-level c= line is present or when there is at least one media item and every
\* media item has a c= line.
C15_ConnectionRequirement ==
    (sdpPhase = "parsed" /\ sdpModel = None /\ sdpResult \in {"Ok", "ConnectionMissing"}) =>
        \A lines \in {Lines(sdpText)} :
            IF HasSessionConnection(lines)
               \/ (MediaLineNumbers(lines) # {} /\ EveryMediaHasConnection(lines))
            THEN sdpResult = "Ok"
            ELSE sdpResult = "ConnectionMissing"

-----------------------------------------------------------------------------
(* rave_rtp: Packet and PacketPadded (packet.rs, serialize.rs 11-49,        *)
(* parse.rs 10-32).                                                         *)

\* Packet::new: the padding flag of the header is cleared
PacketNew(header, payload) == [header |-> [header EXCEPT !.padding = FALSE], payload |-> payload]
\* Packet::with_padding: the flag is set, the divisor kept
PacketWithPadding(packet, padding_divisor) ==
    [packet |-> [packet EXCEPT !.header.padding = TRUE], padding_divisor |-> padding_divisor]

\* Serialize for Packet: [err, bytes]; "Panic" is the failed assert!(!header.padding)
PacketSerialize(packet) ==
    Let(packet, LAMBDA p :
        IF p.header.padding THEN [err |-> "Panic", bytes |-> <<>>]
        ELSE Let(HeaderSerialize(p.header), LAMBDA h :
                 IF h.err # "Ok" THEN h
                 ELSE [err |-> "Ok", bytes |-> h.bytes \o p.payload]))
PacketSerializedLen(packet) == HeaderSerializedLen(packet.header) + Len(packet.payload)

\* calculate_padding: None is the panic of the remainder by zero
CalculatePadding(padding_divisor, len) ==
    IF padding_divisor = 0 THEN None
    ELSE Some(padding_divisor - (len % padding_divisor))

\* Serialize for PacketPadded: [err, bytes]
PacketPaddedSerialize(padded) ==
    Let(padded, LAMBDA pp :
        IF ~pp.packet.header.padding THEN [err |-> "Panic", bytes |-> <<>>]
        ELSE Let(PacketSerialize(pp.packet), LAMBDA s :
                 IF s.err # "Ok" THEN s
                 ELSE Let(CalculatePadding(pp.padding_divisor, Len(s.bytes)), LAMBDA pad :
                          IF pad = None THEN [err |-> "Panic", bytes |-> s.bytes]
                          ELSE IF Unwrap(pad) > 255
                          THEN [err |-> "PaddingLengthInvalid", bytes |-> s.bytes]
                          ELSE [err |-> "Ok",
                                bytes |-> s.bytes \o [i \in 1..(Unwrap(pad) - 1) |-> 0]
                                          \o <<Unwrap(pad)>>])))
\* PacketPadded::serialized_len: None is the panic of the remainder by zero
PacketPaddedSerializedLen(padded) ==
    Let(CalculatePadding(padded.padding_divisor, PacketSerializedLen(padded.packet)),
        LAMBDA pad : IF pad = None THEN None
                     ELSE Some(PacketSerializedLen(padded.packet) + Unwrap(pad)))

\* Packet::parse: [err, packet]
PacketParse(src) ==
    Let(HeaderParse(src), LAMBDA h :
        IF h.err # "Ok" THEN [err |-> h.err, packet |-> None]
        ELSE IF Unwrap(h.header).padding /\ h.rest = <<>>
        THEN [err |-> "NotEnoughData", packet |-> None]
        ELSE Let(IF Unwrap(h.header).padding THEN h.rest[Len(h.rest)] ELSE 0,
                 LAMBDA padding_len :
                 IF Len(h.rest) < padding_len
                 THEN [err |-> "NotEnoughData", packet |-> None]
                 ELSE [err |-> "Ok",
                       packet |-> Some(PacketNew(Unwrap(h.header),
                                                 Take(h.rest, Len(h.rest) - padding_len)))]))

\* the packets a sender builds and the divisors it pads to
PacketHeaders ==
    {Header("Version2", FALSE, marker, 96, 4660, U32(57005, 48879), U32(51966, 47806),
            csrc, None) : marker \in BOOLEAN, csrc \in {<<>>, <<U32(0, 5)>>}}
PacketPayloads == {<<>>, <<1>>, <<1, 2, 3>>, <<1, 2, 3, 4>>, <<9, 0, 2>>}
PaddingDivisors == {0, 1, 2, 4, 5, 255}

InitPadded ==
    /\ pdPacket \in {PacketNew(h, p) : h \in PacketHeaders, p \in PacketPayloads}
    /\ pdDivisor = None
    /\ pdStep = "new"
    /\ pdBytes = <<>>
    /\ pdResult = "None"
    /\ pdParsed = None
    /\ IdleExcept("padded")

\* packet.with_padding(padding_divisor)
WithPadding ==
    /\ pdStep = "new" /\ pdDivisor = None
    /\ \E d \in PaddingDivisors :
         \E pp \in {PacketWithPadding(pdPacket, d)} :
            /\ pdPacket' = pp.packet
            /\ pdDivisor' = Some(pp.padding_divisor)
    /\ UNCHANGED <<pdStep, pdBytes, pdResult, pdParsed>>
    /\ UnchangedExcept("padded")

\* packet.serialize(&mut dst) / padded.serialize(&mut dst) on an empty dst
SerializePacket ==
    /\ pdStep = "new"
    /\ \E s \in {IF IsSome(pdDivisor)
                 THEN PacketPaddedSerialize([packet |-> pdPacket,
                                             padding_divisor |-> Unwrap(pdDivisor)])
                 ELSE PacketSerialize(pdPacket)} :
           /\ pdBytes' = s.bytes
           /\ pdResult' = s.err
    /\ pdStep' = "serialized"
    /\ UNCHANGED <<pdPacket, pdDivisor, pdParsed>>
    /\ UnchangedExcept("padded")

\* Packet::parse(&mut src) on the bytes written
ParsePacket ==
    /\ pdStep = "serialized" /\ pdResult = "Ok"
    /\ pdParsed' = Some(PacketParse(pdBytes))
    /\ pdStep' = "parsed"
    /\ UNCHANGED <<pdPacket, pdDivisor, pdBytes, pdResult>>
    /\ UnchangedExcept("padded")

NextPadded == WithPadding \/ SerializePacket \/ ParsePacket
SpecPadded == InitPadded /\ [][NextPadded]_vars

\* the bytes are the header with the padding flag set, the payload, then p pad bytes,
\* all zero but the last, which is p
PaddedLayout(bytes, packet, p) ==
    /\ p >= 1
    /\ bytes = HeaderSerialize([packet.header EXCEPT !.padding = TRUE]).bytes
               \o packet.payload \o [i \in 1..(p - 1) |-> 0] \o <<p>>

\* C19 -- Padded RTP serialization.  Serializing packet.with_padding(d) for any d >= 1
\* into an empty buffer succeeds and writes the header with the padding flag set, the
\* payload, then p = d - (len mod d) pad bytes (len = header plus payload length) that
\* are all zero except the last one, which equals p; the total length is a multiple of
\* d and equals serialized_len(), and Packet::parse of the output returns the original
\* payload.
C19_PaddedSerialization ==
    (pdStep # "new" /\ IsSome(pdDivisor) /\ Unwrap(pdDivisor) >= 1) =>
        \A d \in {Unwrap(pdDivisor)} :
            /\ pdResult = "Ok"
            /\ PaddedLayout(pdBytes, pdPacket, d - (PacketSerializedLen(pdPacket) % d))
            /\ Len(pdBytes) % d = 0
            /\ Some(Len(pdBytes))
                   = PacketPaddedSerializedLen([packet |-> pdPacket, padding_divisor |-> d])
            /\ pdStep = "parsed" =>
                   /\ Unwrap(pdParsed).err = "Ok"
                   /\ Unwrap(Unwrap(pdParsed).packet).payload = pdPacket.payload

-----------------------------------------------------------------------------
(* rave_rtsp: one interleaved frame written by serialize and read back by   *)
(* InterleavedParser::parse (interleaved.rs).                               *)

\* the stream may be cut anywhere in its first MaxCutHead bytes and in its last
\* MaxCutTail bytes; what lies between arrives in one piece or with either end
MaxCutHead == 6
MaxCutTail == 2
\* payload lengths: none, short, one more than a length byte holds, the longest the
\* length field holds, and one more
FramePayloadLens == {0, 1, 5, 256, 65535, 65536}
FramePayload(len) == [i \in 1..len |-> (i * 7 + 29) % 256]
Frames == {Interleaved(channel, FramePayload(len)) :
              channel \in {1, 255}, len \in FramePayloadLens}

InitInterleaved ==
    /\ expected \in {<<f>> : f \in Frames}
    /\ stream = <<>>
    /\ delivered = 0
    /\ buffer = <<>>
    /\ parser = None
    /\ codec = NewCodec
    /\ output = <<>>
    /\ lastStatus = "None"
    /\ pending = FALSE
    /\ doneAt = <<>>
    /\ split = FALSE
    /\ IdleExcept("rtsp")

\* MaybeInterleaved::Interleaved { channel, payload }.serialize(&mut dst)
SerializeFrame ==
    /\ lastStatus = "None"
    /\ \E r \in {SerializeItem(expected[1])} :
           IF IsSome(r)
           THEN stream' = Unwrap(r) /\ lastStatus' = "Serialized"
           ELSE /\ stream' = WrittenBeforeError(expected[1])
                /\ lastStatus' = "InterleavedPayloadTooLarge"
    /\ UNCHANGED <<expected, delivered, buffer, parser, codec, output, pending, doneAt,
                   split>>
    /\ UnchangedExcept("rtsp")

\* the next bytes of the frame arrive; a frame that serialize refused is not sent
ExtendFrame ==
    \E n \in 1..(Len(stream) - delivered) :
        /\ lastStatus # "InterleavedPayloadTooLarge"
        /\ delivered + n <= MaxCutHead \/ delivered + n >= Len(stream) - MaxCutTail
        /\ Extend(n)

\* interleaved_parser.parse(&mut buffer); parser holds channel_and_size
ParseFrame ==
    /\ pending
    /\ \E r \in {InterleavedParse(parser, buffer)} :
           /\ parser' = r.cs
           /\ buffer' = r.buf
           /\ lastStatus' = IF r.err # "" THEN r.err
                            ELSE IF IsSome(r.item) THEN "Item" ELSE "NoItem"
           /\ output' = IF IsSome(r.item) THEN Append(output, Unwrap(r.item)) ELSE output
    /\ pending' = FALSE
    /\ UNCHANGED <<expected, stream, delivered, codec, doneAt, split>>
    /\ UnchangedExcept("rtsp")

NextInterleaved == SerializeFrame \/ ExtendFrame \/ ParseFrame
SpecInterleaved == InitInterleaved /\ [][NextInterleaved]_vars

\* C20 -- Interleaved frame serialization.  For a payload of at most 65535 bytes,
\* serialize writes the byte 0x24, the channel byte, the payload length as two bytes
\* big-endian and then the payload, and InterleavedParser::parse of those bytes in any
\* chunking returns the same (channel, payload); for any longer payload serialize
\* returns InterleavedPayloadTooLarge.
C20_InterleavedFrame ==
    lastStatus # "None" =>
        \A f \in {expected[1]} :
            IF Len(f.payload) > 65535
            THEN lastStatus = "InterleavedPayloadTooLarge"
            ELSE /\ stream = <<36, f.channel, Len(f.payload) \div 256,
                               Len(f.payload) % 256>> \o f.payload
                 /\ delivered < Len(stream) =>
                        output = <<>> /\ lastStatus \in {"Serialized", "NoItem"}
                 /\ (delivered = Len(stream) /\ ~pending) =>
                        output = <<f>> /\ lastStatus = "Item" /\ buffer = <<>>

\* a frame with the longest payload, cut inside its header and again before its last
\* byte, came back whole
C20_Witness ==
    /\ Len(expected[1].payload) = 65535
    /\ split
    /\ output = expected
    /\ parser = Some(<<expected[1].channel, 65535>>)

-----------------------------------------------------------------------------
(* rave_rtsp: a caller that keeps its parser after Done and calls parse     *)
(* again (parse.rs, State::Body(Body::Complete) in parse_inner).            *)

InitFinished ==
    InitFeed(SeqsUpTo(RequestItems) \cup SeqsUpTo(ResponseItems)) /\ IdleExcept("rtsp")

\* parser.parse(&mut buffer) on the parser the caller holds; output records what
\* into_message of that parser gives at the moment parse returns Done
ParseKept ==
    \E kind \in {KindOf(expected)} : \E r \in {ParserParse(parser, kind, buffer)} :
        /\ parser' = r.parser
        /\ buffer' = r.buffer
        /\ lastStatus' = r.result
        /\ pending' = FALSE
        /\ IF r.result = "Done"
           THEN /\ output' = Append(output, Unwrap(IntoMessage(r.parser, kind)))
                /\ doneAt' = Append(doneAt, delivered - Len(r.buffer))
           ELSE UNCHANGED <<output, doneAt>>
        /\ UNCHANGED <<expected, stream, delivered, codec, split>>
        /\ UnchangedExcept("rtsp")

\* the call that follows a chunk
ParseKeeping == pending /\ ParseKept

\* a further call at once on a parser that has returned Done
ParseFinished == ~pending /\ parser.state = "Complete" /\ ParseKept

NextFinished == AppendChunk \/ ParseKeeping \/ ParseFinished
SpecFinished == InitFinished /\ [][NextFinished]_vars

\* C21 -- Finished parser misuse.  Calling Parser::parse on a parser whose previous
\* parse call returned Done returns the error BodyAlreadyDone, whatever the buffer
\* holds, consumes no byte of the buffer, and leaves the completed message unchanged,
\* so that into_message still returns it.
C21_ParseStep ==
    (parser.state = "Complete" /\ ~pending') =>
        /\ lastStatus' = "BodyAlreadyDone"
        /\ buffer' = buffer
        /\ parser' = parser
        /\ IntoMessage(parser', KindOf(expected)) = Some(expected[1])
C21_FinishedParser == [][C21_ParseStep]_vars

\* parse was called on the finished parser with the next message in the buffer
C21_Witness ==
    /\ lastStatus = "BodyAlreadyDone"
    /\ parser.state = "Complete"
    /\ Len(expected) = 2
    /\ buffer = StreamOf(<<expected[2]>>)
    /\ output = <<expected[1]>>

-----------------------------------------------------------------------------
(* rave_rtsp: serialize of requests and responses of every version          *)
(* (serialize.rs).                                                          *)

RtspVersions == {"V1", "V2", "Unknown"}
SerializeBodies == {None, Some(<<>>), Some(<<36, 13, 10, 120>>)}
SerializeStatuses == {100, 200, 404, 600}
SerializeMessages ==
    {Request(m, u, v, h, b) :
        m \in Methods, u \in RoundTripUris, v \in RtspVersions,
        h \in {EmptyHeaders, HeadersInsert(EmptyHeaders, H_CSeq, <<49>>)},
        b \in SerializeBodies}
    \cup {Response(v, s, r, h, b) :
            v \in RtspVersions, s \in SerializeStatuses, r \in RoundTripReasons,
            h \in RoundTripHeaders, b \in SerializeBodies}

InitSerialize ==
    /\ expected \in {<<m>> : m \in SerializeMessages}
    /\ stream = <<>>
    /\ delivered = 0
    /\ buffer = <<>>
    /\ parser = NewParser
    /\ codec = NewCodec
    /\ output = <<>>
    /\ lastStatus = "None"
    /\ pending = FALSE
    /\ doneAt = <<>>
    /\ split = FALSE
    /\ IdleExcept("rtsp")

\* message.serialize(&mut dst): stream is dst after the call
SerializeAny ==
    /\ lastStatus = "None"
    /\ \E r \in {SerializeMessage(expected[1])} :
           IF IsSome(r)
           THEN stream' = Unwrap(r) /\ lastStatus' = "Ok"
           ELSE stream' = WrittenBeforeError(expected[1]) /\ lastStatus' = "VersionUnknown"
    /\ UNCHANGED <<expected, delivered, buffer, parser, codec, output, pending, doneAt,
                   split>>
    /\ UnchangedExcept("rtsp")

NextSerialize == SerializeAny
SpecSerialize == InitSerialize /\ [][NextSerialize]_vars

VersionText(v) == IF v = "V1" THEN <<82, 84, 83, 80, 47, 49, 46, 48>> ELSE <<82, 84, 83, 80, 47, 50, 46, 48>>
\* the bytes of a request line before its version
RequestLineStart(m) == MethodBytes(m.method) \o <<32>> \o m.uri \o <<32>>

\* C22 -- Unknown version is not serializable.  serialize of a request or a response
\* whose version is Version::Unknown returns the error VersionUnknown, for every
\* method, URI, status, header set and body; versions 1.0 and 2.0 are written as
\* RTSP/1.0 and RTSP/2.0 and never fail.
C22_UnknownVersion ==
    lastStatus # "None" =>
        \A m \in {expected[1]} :
            IF m.version = "Unknown"
            THEN lastStatus = "VersionUnknown"
            ELSE /\ lastStatus = "Ok"
                 /\ IF m.kind = "request"
                    THEN StartsWith(stream, RequestLineStart(m) \o VersionText(m.version)
                                                \o <<13, 10>>)
                    ELSE StartsWith(stream, VersionText(m.version) \o <<32>>)

\* a SETUP request with a body and an unknown version was refused
C22_Witness ==
    /\ lastStatus = "VersionUnknown"
    /\ expected[1].kind = "request"
    /\ expected[1].method = "Setup"
    /\ IsSome(expected[1].body)

-----------------------------------------------------------------------------
(* rave_rtsp: lines read from a buffer that grows (buffer.rs).              *)

MaxLineInput == 4
\* a letter, a byte that is no UTF-8, and the two terminators
LineBytes == {97, 200, CR, LN}
LineInputs == UNION {[1..n -> LineBytes] : n \in 1..MaxLineInput}

\* Option<Result<String, FromUtf8Error>> of one line: both hold the bytes
LineResult(line) == [ok |-> IsUtf8(line), bytes |-> line]

\* read_line called on the whole input until it returns None
RECURSIVE AllLines(_)
AllLines(input) ==
    Let(ReadLine(input), LAMBDA r :
        IF IsSome(r) THEN <<LineResult(Unwrap(r).line)>> \o AllLines(Unwrap(r).rest)
        ELSE <<>>)

InitLines ==
    /\ expected = <<>>
    /\ stream \in LineInputs
    /\ delivered = 0
    /\ buffer = <<>>
    /\ parser = NewParser
    /\ codec = NewCodec
    /\ output = <<>>
    /\ lastStatus = "None"
    /\ pending = FALSE
    /\ doneAt = <<>>
    /\ split = FALSE
    /\ IdleExcept("rtsp")

\* more bytes arrive, whether or not the lines in the buffer have been read
BytesArrive ==
    /\ \E n \in 1..MaxChunk :
           /\ delivered + n <= Len(stream)
           /\ buffer' = buffer \o SubSeq(stream, delivered + 1, delivered + n)
           /\ delivered' = delivered + n
    /\ UNCHANGED <<expected, stream, parser, codec, output, lastStatus, pending, doneAt,
                   split>>
    /\ UnchangedExcept("rtsp")

\* buffer.read_line(); split remembers a call that found only a CR in the last byte
ReadNextLine ==
    /\ \E r \in {ReadLine(buffer)} :
           IF IsSome(r)
           THEN /\ output' = Append(output, LineResult(Unwrap(r).line))
                /\ buffer' = Unwrap(r).rest
                /\ lastStatus' = "Line"
                /\ split' = split
           ELSE /\ UNCHANGED <<output, buffer>>
                /\ lastStatus' = "NoLine"
                /\ split' = (split \/ (buffer # <<>> /\ buffer[Len(buffer)] = CR))
    /\ UNCHANGED <<expected, stream, delivered, parser, codec, pending, doneAt>>
    /\ UnchangedExcept("rtsp")

NextLines == BytesArrive \/ ReadNextLine
SpecLines == InitLines /\ [][NextLines]_vars

IsPrefix(s, t) == Len(s) <= Len(t) /\ SubSeq(t, 1, Len(s)) = s
\* the position of the first CR or LN of a buffer, 0 when it has none
FirstTerminator(c) ==
    IF \E i \in 1..Len(c) : c[i] \in {CR, LN}
    THEN CHOOSE i \in 1..Len(c) : c[i] \in {CR, LN} /\ \A j \in 1..(i - 1) : c[j] \notin {CR, LN}
    ELSE 0

\* The lines returned so far are a prefix of the lines of the whole input.
C23_Prefix == IsPrefix(output, AllLines(stream))

\* One read_line call: the line is what precedes the first terminator and the cursor
\* moves past the terminator; without a terminator, or with a CR in the last byte as
\* the only candidate, nothing is returned and nothing is consumed.
C23_ReadStep ==
    delivered' = delivered =>
        \E i \in {FirstTerminator(buffer)} :
            IF i = 0 \/ (i = Len(buffer) /\ buffer[i] = CR)
            THEN output' = output /\ buffer' = buffer /\ lastStatus' = "NoLine"
            ELSE /\ output' = Append(output, LineResult(SubSeq(buffer, 1, i - 1)))
                 /\ lastStatus' = "Line"
                 /\ buffer' = SubSeq(buffer,
                                     IF buffer[i] = CR /\ buffer[i + 1] = LN
                                     THEN i + 2 ELSE i + 1, Len(buffer))

\* C23 -- Line reader.  read_line returns the bytes before the first CR, LF or CRLF
\* of the available buffer and advances the cursor exactly past that terminator
\* (2 bytes for CRLF, 1 byte otherwise); when there is no terminator, or the only
\* candidate is a CR that is the last available byte, it returns nothing and consumes
\* nothing.  As a result, for every input and every chunking of it, the lines
\* returned are, in order, a prefix of the lines returned when the whole input is
\* available at once.
C23_LineReader == []C23_Prefix /\ [][C23_ReadStep]_vars

\* a CRLF arrived in two pieces: the reader waited on the CR, then returned the line
\* and the one after it
C23_Witness ==
    /\ split
    /\ stream = <<97, CR, LN, LN>>
    /\ output = <<LineResult(<<97>>), LineResult(<<>>)>>
    /\ buffer = <<>>

-----------------------------------------------------------------------------
(* rave_rtp: FU-A runs fed in order to a depacketizer (h264.rs 449-502).     *)

\* FU indicators with nal_ref_idc 0 and 3, the NAL unit types carried, fragment data
FuIndicators == {28, 96 + 28}
FuTypes == {1, 5}
FuData == {<<>>, <<7>>, <<8, 9>>}
FuDataOf(payload) == SubSeq(payload, 3, Len(payload))

InitReassembly ==
    /\ mode = 1
    /\ mtu = 0
    /\ seqNo = 0
    /\ au = <<>>
    /\ auTimestamp = 0
    /\ pktResult = "None"
    /\ packets = <<>>
    /\ fragBuf = None
    /\ fed = 0
    /\ nals = <<>>
    /\ depResult = "None"
    /\ IdleExcept("h264")

\* depacketizer.depacketize(&packet); au holds the fragments of the run that is open
FeedFragment(payload, closes) ==
    /\ fed < MaxFed
    /\ \E r \in {H264Depacketize(fragBuf, payload)} :
           /\ packets' = Append(packets, [payload |-> payload])
           /\ fragBuf' = r.buf
           /\ nals' = nals \o r.nals
           /\ depResult' = IF r.err = "" THEN "Ok" ELSE r.err
    /\ au' = IF closes THEN <<>> ELSE Append(au, payload)
    /\ fed' = fed + 1
    /\ UNCHANGED <<mode, mtu, seqNo, auTimestamp, pktResult>>
    /\ UnchangedExcept("h264")

\* the start fragment of a run arrives while no run is open
FeedStart ==
    /\ au = <<>>
    /\ \E ind \in FuIndicators, type \in FuTypes, d \in FuData :
           FeedFragment(<<ind, 128 + type>> \o d, FALSE)

\* a middle fragment of the open run arrives
FeedMiddle ==
    /\ au # <<>>
    /\ \E d \in FuData : FeedFragment(<<au[1][1], BitAnd(au[1][2], 31)>> \o d, FALSE)

\* the end fragment of the open run arrives
FeedEnd ==
    /\ au # <<>>
    /\ \E d \in FuData : FeedFragment(<<au[1][1], 64 + BitAnd(au[1][2], 31)>> \o d, TRUE)

NextReassembly == FeedStart \/ FeedMiddle \/ FeedEnd
SpecReassembly == InitReassembly /\ [][NextReassembly]_vars

\* the data of the fragments of the open run and of the one just fed, in arrival order
RunData(fragments, last) ==
    Concat([i \in 1..Len(fragments) |-> FuDataOf(fragments[i])]) \o FuDataOf(last)

C24_FeedStep ==
    \A p \in {packets'[Len(packets')].payload} :
        /\ depResult' = "Ok"
        /\ IF FuEnd(p)
           THEN /\ nals' = Append(nals, <<BitOr(BitAnd(p[1], 96), BitAnd(p[2], 31))>>
                                            \o RunData(au, p))
                /\ fragBuf' = None
           ELSE /\ nals' = nals
                /\ fragBuf' = Some(RunData(au, p))

\* C24 -- FU-A reassembly.  For an FU-A run (start fragment, zero or more middle
\* fragments, end fragment) received in order by a depacketizer with no fragment in
\* progress, every packet before the end fragment emits no NAL unit, the end fragment
\* emits exactly one NAL unit whose first byte is (FU indicator & 0x60) | (FU header &
\* 0x1f) and whose remaining bytes are the fragment payloads concatenated in arrival
\* order, and afterwards no fragment is in progress.
C24_FuaReassembly == [][C24_FeedStep]_vars

-----------------------------------------------------------------------------
(* Properties of the FU-A packets of the mode-1 packetizer.                 *)

\* the NAL unit of the access unit an FU-A payload was cut from: the data bytes of
\* the i-th NAL unit of the catalogue are 16 * i + j
FuOrigin(payload) == au[payload[3] \div 16]
FuPackets == {i \in 1..Len(packets) : packets[i].kind = "fu"}

\* C25 -- FU-A header bytes on send.  Every FU-A payload produced by the mode-1
\* packetizer starts with an FU indicator byte equal to (original NAL first byte &
\* 0x60) | 28, followed by an FU header byte whose low five bits equal the original
\* NAL unit type and whose reserved bit 0x20 is 0.
C25_FuaHeaderBytes ==
    (mode = 1 /\ pktResult = "Ok") =>
        \A i \in FuPackets :
            \A p \in {packets[i].payload} : \A nal_unit \in {FuOrigin(p)} :
                /\ p[1] = BitOr(BitAnd(nal_unit[1], 96), 28)
                /\ BitAnd(p[2], 31) = BitAnd(nal_unit[1], 31)
                /\ BitAnd(p[2], 32) = 0

-----------------------------------------------------------------------------
(* rave_rtp: H264PacketizerMode1::packetize followed group by group          *)
(* (h264.rs 289-350).                                                        *)

\* Packetizer::packetize of a packetizer without MTU: the size test is skipped
InnerPacketizeUnbounded(seq, job, ts) ==
    [InnerPacketize(seq, job, ts, 0) EXCEPT !.err = ""]

\* a NAL unit of len bytes, the i-th of its access unit
LongNalUnit(i, len) ==
    <<NalHeaders[i]>> \o [j \in 1..(len - 1) |-> (16 * i + j) % 256]
\* access units of short NAL units with every small MTU and without MTU; the access
\* unit of NAL units of 10, 20 and 30 bytes with MTU 80; NAL units at and above the
\* longest length a STAP-A can hold
Mode1Inputs ==
    {[data |-> d, mtu |-> m] :
        d \in AccessUnits, m \in {None} \cup {Some(n) : n \in HeaderLen..MaxMtu}}
    \cup {[data |-> <<LongNalUnit(1, 10), LongNalUnit(2, 20), LongNalUnit(3, 30)>>,
           mtu |-> m] : m \in {None, Some(80), Some(90)}}
    \cup {[data |-> <<LongNalUnit(1, 2), LongNalUnit(2, len)>>, mtu |-> m] :
            len \in {65535, 65536}, m \in {None, Some(1500), Some(65600)}}

InitMode1 ==
    /\ \E in \in Mode1Inputs : m1Data = in.data /\ m1Mtu = in.mtu
    /\ m1Seq \in InitialSeqs
    /\ m1Groups = None
    /\ m1Done = 0
    /\ m1Packets = <<>>
    /\ m1Result = "None"
    /\ IdleExcept("mode1")

\* let groups = self.group_nal_units(data, mtu)
GroupUnits ==
    /\ m1Result = "None"
    /\ IsSome(m1Mtu)
    /\ m1Groups = None
    /\ m1Groups' = Some(GroupNalUnits(m1Data, 1, <<>>, Unwrap(m1Mtu)))
    /\ UNCHANGED <<m1Data, m1Mtu, m1Seq, m1Done, m1Packets, m1Result>>
    /\ UnchangedExcept("mode1")

\* one turn of the loop over the groups: a single NAL unit packet, FU-A packets or a
\* STAP-A packet; an error ends the call, the last group ends it with Ok
PacketizeGroup ==
    /\ m1Result = "None"
    /\ IsSome(m1Groups)
    /\ m1Done < Len(Unwrap(m1Groups))
    /\ \E overflowChecks \in BOOLEAN, ts \in Timestamps :
         \E is_last_group \in {m1Done = Len(Unwrap(m1Groups)) - 1} :
           \E g \in {GroupJobs(Unwrap(m1Groups)[m1Done + 1], is_last_group, Unwrap(m1Mtu),
                               overflowChecks)} :
              IF g.err # ""
              THEN m1Result' = g.err /\ UNCHANGED <<m1Seq, m1Done, m1Packets>>
              ELSE \E r \in {RunJobs(m1Seq, g.jobs, ts, Unwrap(m1Mtu), <<>>)} :
                      /\ m1Seq' = r.seq
                      /\ IF r.err # ""
                         THEN m1Result' = r.err /\ UNCHANGED <<m1Done, m1Packets>>
                         ELSE /\ m1Packets' = Append(m1Packets, r.packets)
                              /\ m1Done' = m1Done + 1
                              /\ m1Result' = IF is_last_group THEN "Ok" ELSE "None"
    /\ UNCHANGED <<m1Data, m1Mtu, m1Groups>>
    /\ UnchangedExcept("mode1")

\* without MTU: one STAP-A packet of all the NAL units, with the marker
PacketizeUnbounded ==
    /\ m1Result = "None"
    /\ m1Mtu = None
    /\ \E ts \in Timestamps : \E stap \in {PayloadStapA(m1Data)} :
           IF stap = None
           THEN m1Result' = "H264NalUnitDataLengthInvalid" /\ UNCHANGED <<m1Seq, m1Packets>>
           ELSE \E r \in {InnerPacketizeUnbounded(
                              m1Seq, [payload |-> Unwrap(stap), marker |-> TRUE,
                                      kind |-> "stap"], ts)} :
                    /\ m1Seq' = r.seq
                    /\ m1Packets' = <<<<r.packet>>>>
                    /\ m1Result' = "Ok"
    /\ UNCHANGED <<m1Data, m1Mtu, m1Groups, m1Done>>
    /\ UnchangedExcept("mode1")

NextMode1 == GroupUnits \/ PacketizeGroup \/ PacketizeUnbounded
SpecMode1 == InitMode1 /\ [][NextMode1]_vars

\* header_len + sum of (2 + len_i) over the NAL units of a group
RECURSIVE StapSize(_)
StapSize(group) ==
    IF group = <<>> THEN 0 ELSE 2 + Len(group[1]) + StapSize(Tail(group))
GroupFits(group) == HeaderLen + StapSize(group) <= Unwrap(m1Mtu)
\* the position in the access unit of the j-th NAL unit of the i-th group
PositionOf(groups, i, j) == Len(Concat(SubSeq(groups, 1, i - 1))) + j

\* C28 -- Greedy STAP-A grouping.  group_nal_units keeps the input order, puts every
\* NAL unit in exactly one group, and adds a NAL unit to the current group only if the
\* group including that NAL unit still satisfies header_len + sum of (2 + len_i) <=
\* MTU; otherwise the NAL unit starts a new group.  Hence every group of two or more
\* NAL units satisfies that inequality.
C28_GreedyGrouping ==
    IsSome(m1Groups) =>
        \A groups \in {Unwrap(m1Groups)} :
            /\ Concat(groups) = m1Data
            /\ \A i \in 1..Len(groups) : groups[i] # <<>>
            /\ \A i \in 1..Len(groups) : \A j \in 2..Len(groups[i]) :
                   GroupFits(SubSeq(groups[i], 1, j))
            /\ \A i \in 2..Len(groups) :
                   ~GroupFits(Append(groups[i - 1], groups[i][1]))
            /\ \A i \in 1..Len(groups) : Len(groups[i]) >= 2 => GroupFits(groups[i])

\* the aggregation units of a group: per NAL unit its length in two bytes, then its bytes
AggregationUnits(group) ==
    Concat([k \in 1..Len(group) |->
               <<Len(group[k]) \div 256, Len(group[k]) % 256>> \o group[k]])
\* the packets built from a group are one packet with the STAP-A layout
StapLayout(group, pkts) ==
    /\ Len(pkts) = 1
    /\ \A p \in {pkts[1].payload} :
           /\ Len(p) = 1 + StapSize(group)
           /\ BitAnd(p[1], 31) = 24
           /\ SubSeq(p, 2, Len(p)) = AggregationUnits(group)
TooLong(group) == \E k \in 1..Len(group) : Len(group[k]) > 65535

\* C27 -- STAP-A payload layout.  A group of n >= 2 NAL units becomes one RTP packet
\* whose payload is one aggregation header byte with type 24 followed, for each NAL
\* unit in input order, by its length as two bytes big-endian and then its bytes, so
\* the payload length is 1 + sum of (2 + len_i) (67 for NAL units of 10, 20 and 30
\* bytes); a NAL unit longer than 65535 bytes is rejected with an error.
C27_StapLayout ==
    /\ (m1Mtu = None /\ Len(m1Data) >= 2 /\ m1Result # "None") =>
           IF TooLong(m1Data)
           THEN m1Result = "H264NalUnitDataLengthInvalid"
           ELSE m1Result = "Ok" /\ StapLayout(m1Data, m1Packets[1])
    /\ IsSome(m1Groups) =>
           \A groups \in {Unwrap(m1Groups)} :
               \A i \in 1..Len(groups) :
                   Len(groups[i]) >= 2 =>
                       /\ i <= m1Done => StapLayout(groups[i], m1Packets[i])
                       /\ (i = m1Done + 1 /\ m1Result # "None" /\ TooLong(groups[i])) =>
                              m1Result = "H264NalUnitDataLengthInvalid"

\* the NAL data an FU-A packet carries after its two header bytes
FuDataOfPacket(pkt) == SubSeq(pkt.payload, 3, Len(pkt.payload))
\* pkts are the FU-A packets of nal_unit for fragments of at most size bytes: their
\* number is ceil((L - 1) / size), none carries more than size bytes, together they
\* carry the bytes after the first in order, start bit on the first only and end bit
\* on the last only
FuRun(nal_unit, pkts, size) ==
    /\ Len(pkts) * size >= Len(nal_unit) - 1
    /\ (Len(pkts) - 1) * size < Len(nal_unit) - 1
    /\ \A j \in 1..Len(pkts) :
           /\ Len(pkts[j].payload) >= 2
           /\ pkts[j].kind = "fu"
           /\ Len(FuDataOfPacket(pkts[j])) <= size
           /\ (BitAnd(pkts[j].payload[2], 128) = 128) <=> (j = 1)
           /\ (BitAnd(pkts[j].payload[2], 64) = 64) <=> (j = Len(pkts))
    /\ Concat([j \in 1..Len(pkts) |-> FuDataOfPacket(pkts[j])]) = Tail(nal_unit)

\* C26 -- FU-A fragmentation.  A NAL unit of length L with header_len + L > MTU is
\* split into ceil((L - 1) / (MTU - header_len - 2)) FU-A packets; each carries at
\* most MTU - header_len - 2 bytes of the NAL data after its first byte, the fragments
\* taken in order carry that data without loss, duplication or reordering, the start
\* bit 0x80 is set on the first fragment only and the end bit 0x40 on the last
\* fragment only.  (Stated for the MTUs that leave room for a fragment of one byte.)
C26_FuaFragmentation ==
    (m1Result # "None" /\ IsSome(m1Groups) /\ Unwrap(m1Mtu) >= HeaderLen + 3) =>
        \A groups \in {Unwrap(m1Groups)} :
            \A i \in 1..Len(groups) : \A j \in 1..Len(groups[i]) :
                HeaderLen + Len(groups[i][j]) > Unwrap(m1Mtu) =>
                    /\ Len(groups[i]) = 1
                    /\ i <= m1Done
                    /\ FuRun(groups[i][1], m1Packets[i], Unwrap(m1Mtu) - HeaderLen - 2)

\* C29 -- Mode 1 fragments instead of failing.  With an MTU >= header_len + 3
\* configured, H264PacketizerMode1::packetize never returns PacketSizeExceedsMtu, for
\* any access unit whose NAL units have length between 2 and 65535: data that does not
\* fit in one packet is spread over several packets.
C29_NoMtuFailure ==
    (/\ IsSome(m1Mtu) /\ Unwrap(m1Mtu) >= HeaderLen + 3
     /\ \A k \in 1..Len(m1Data) : Len(m1Data[k]) \in 2..65535) =>
        m1Result # "PacketSizeExceedsMtu"

-----------------------------------------------------------------------------
(* rave_rtp: H264PacketizerMode0::packetize with and without MTU            *)
(* (h264.rs 137-149, common.rs 56-71).                                      *)

Mode0Timestamps == {0, 90000}
\* the payloads H264PacketizerMode0::packetize hands to Packetizer::packetize
Mode0Jobs(data) ==
    [i \in 1..Len(data) |->
        [payload |-> data[i], marker |-> (i - 1 = Len(data) - 1), kind |-> "single"]]

\* the calls of Packetizer::packetize of a packetizer without MTU
RECURSIVE RunJobsUnbounded(_, _, _, _)
RunJobsUnbounded(seq, jobs, ts, acc) ==
    IF jobs = <<>> THEN [seq |-> seq, err |-> "", packets |-> acc]
    ELSE Let(InnerPacketizeUnbounded(seq, jobs[1], ts), LAMBDA r :
             RunJobsUnbounded(r.seq, Tail(jobs), ts, Append(acc, r.packet)))

\* in this specification mtu is the Option of the packetization parameters
InitMode0 ==
    /\ mode = 0
    /\ mtu \in {None} \cup {Some(n) : n \in HeaderLen..MaxMtu}
    /\ seqNo \in InitialSeqs
    /\ au = <<>>
    /\ auTimestamp = 0
    /\ pktResult = "None"
    /\ packets = <<>>
    /\ fragBuf = None
    /\ fed = 0
    /\ nals = <<>>
    /\ depResult = "None"
    /\ IdleExcept("h264")

\* packetizer.packetize(data, timestamp) in single NAL unit mode
PacketizeSingle ==
    /\ pktResult = "None"
    /\ \E data \in AccessUnits \cup {<<>>}, ts \in Mode0Timestamps :
         \E r \in {IF mtu = None THEN RunJobsUnbounded(seqNo, Mode0Jobs(data), ts, <<>>)
                   ELSE PacketizeMode0(seqNo, data, ts, Unwrap(mtu))} :
            /\ au' = data
            /\ auTimestamp' = ts
            /\ seqNo' = r.seq
            /\ pktResult' = IF r.err = "" THEN "Ok" ELSE r.err
            /\ packets' = r.packets
    /\ UNCHANGED <<mode, mtu, fragBuf, fed, nals, depResult>>
    /\ UnchangedExcept("h264")

NextMode0 == PacketizeSingle
SpecMode0 == InitMode0 /\ [][NextMode0]_vars

\* an MTU is configured and some NAL unit of the access unit does not fit
SomeUnitExceedsMtu ==
    IsSome(mtu) /\ \E k \in 1..Len(au) : HeaderLen + Len(au[k]) > Unwrap(mtu)

\* C30 -- Mode 0 (single NAL unit).  packetize of n NAL units returns n packets whose
\* payloads are the NAL units verbatim and in order, all with the given timestamp,
\* with the marker bit set on the n-th packet only; when an MTU is configured and some
\* NAL unit has header_len + nal_len > MTU the call fails with PacketSizeExceedsMtu
\* and returns no packet.
C30_SingleNalMode ==
    pktResult # "None" =>
        IF SomeUnitExceedsMtu
        THEN pktResult = "PacketSizeExceedsMtu" /\ packets = <<>>
        ELSE /\ pktResult = "Ok"
             /\ Len(packets) = Len(au)
             /\ \A i \in 1..Len(au) :
                    /\ packets[i].payload = au[i]
                    /\ packets[i].timestamp = auTimestamp
                    /\ packets[i].marker <=> (i = Len(au))

\* three NAL units, the second filling the MTU exactly, came out as three packets
C30_Witness ==
    /\ pktResult = "Ok"
    /\ IsSome(mtu)
    /\ Len(au) = 3
    /\ HeaderLen + Len(au[2]) = Unwrap(mtu)
    /\ auTimestamp = 90000
    /\ packets[3].marker /\ ~packets[1].marker

-----------------------------------------------------------------------------
(* rave_rtp: depacketize of packets of every type (h264.rs 394-517).         *)

\* first bytes of every type with the upper three bits clear, partly set and all set
FirstBytes == {type + upper : type \in 0..31, upper \in {0, 96, 224}}
\* payloads of 1, 2 and 3 bytes and the empty payload; with type 28 the second byte
\* 133 starts a fragment and 7 continues one
DispatchPayloads ==
    {<<>>} \cup {<<b>> \o d : b \in FirstBytes, d \in {<<>>, <<7>>, <<133, 9>>}}

InitDispatch ==
    /\ mode = 1
    /\ mtu = 0
    /\ seqNo = 0
    /\ au = <<>>
    /\ auTimestamp = 0
    /\ pktResult = "None"
    /\ packets = <<>>
    /\ fragBuf = None
    /\ fed = 0
    /\ nals = <<>>
    /\ depResult = "None"
    /\ IdleExcept("h264")

\* depacketizer.depacketize(&packet): packets holds the packet of this call and nals
\* what this call returned
DepacketizeAny ==
    /\ fed < MaxFed
    /\ \E payload \in DispatchPayloads :
         \E r \in {H264Depacketize(fragBuf, payload)} :
            /\ packets' = <<[payload |-> payload]>>
            /\ fragBuf' = r.buf
            /\ nals' = r.nals
            /\ depResult' = IF r.err = "" THEN "Ok" ELSE r.err
    /\ fed' = fed + 1
    /\ UNCHANGED <<mode, mtu, seqNo, au, auTimestamp, pktResult>>
    /\ UnchangedExcept("h264")

NextDispatch == DepacketizeAny
SpecDispatch == InitDispatch /\ [][NextDispatch]_vars

\* the call just made returned res and units and left the fragment buffer alone
Returned(res, units) ==
    /\ depResult' = res
    /\ nals' = units
    /\ fragBuf' = fragBuf

C31_DispatchStep ==
    \A p \in {packets'[1].payload} :
        IF Len(p) <= 1
        THEN Returned("H264NalUnitLengthTooSmall", <<>>)
        ELSE \A type \in {p[1] % 32} :
                /\ type \in 1..23 => Returned("Ok", <<p>>)
                /\ type \in {25, 26, 27, 29} =>
                       Returned("H264DepacketizationNalUnitTypeUnsupported", <<>>)
                /\ type \in {30, 31} => Returned("Ok", <<>>)
                /\ type = 0 => Returned("H264DepacketizationNalUnitTypeUnknown", <<>>)

\* C31 -- Depacketizer dispatch.  depacketize classifies a packet only by the low five
\* bits of its first payload byte: types 1..23 return the payload verbatim as one NAL
\* unit, types 25, 26, 27 and 29 return the unsupported-type error, types 30 and 31
\* return no NAL unit and no error, type 0 returns the unknown-type error, and a
\* payload of 0 or 1 bytes returns H264NalUnitLengthTooSmall whatever its type; none of
\* these cases changes the fragment buffer of an FU-A run in progress.
C31_Dispatch == [][C31_DispatchStep]_vars

\* with a fragment in progress, a packet of type 29 with the upper bits set was refused
C31_Witness ==
    /\ fragBuf = Some(<<9>>)
    /\ packets = <<[payload |-> <<253, 7>>]>>
    /\ depResult = "H264DepacketizationNalUnitTypeUnsupported"
    /\ nals = <<>>

-----------------------------------------------------------------------------
(* Line scoping of Sdp::parse: descriptions whose lines come in any order.  *)

MaxScopeLines == 3

\* the lines that parse puts in a scope, and the two m= lines that open one; the
\* network type that NetworkType::from_str accepts is IP4, and a c= line with IN
\* ends parse with NetworkTypeUnknown
ScopeLines ==
    {<<105, 61, 99, 97, 109>>, <<99, 61, 73, 80, 52, 32, 73, 80, 52, 32, 49, 46, 50, 46, 51, 46, 52>>, <<99, 61, 73, 78, 32, 73, 80, 52, 32, 49, 46, 50, 46, 51, 46, 52>>, <<98, 61, 65, 83, 58, 56>>, <<97, 61, 115, 101, 110, 100, 111, 110, 108, 121>>, <<116, 61, 48, 32, 48>>, <<114, 61, 55, 100, 32, 49, 104, 32, 48, 32, 50, 53, 104>>, <<122, 61, 53, 32, 45, 49, 104>>,
     <<109, 61, 118, 105, 100, 101, 111, 32, 48, 32, 82, 84, 80, 47, 65, 86, 80, 32, 57, 54>>, <<109, 61, 97, 117, 100, 105, 111, 32, 53, 48, 48, 52, 32, 82, 84, 80, 47, 83, 65, 86, 80, 32, 57, 55>>}
\* the mandatory lines, then up to MaxScopeLines lines in any order
ScopeHead == Writeln(<<118, 61, 48>>) \o Writeln(<<111, 61, 45, 32, 48, 32, 48, 32, 73, 80, 52, 32, 73, 80, 52, 32, 49, 46, 50, 46, 51, 46, 52>>) \o Writeln(<<115, 61, 88>>)
ScopeTexts ==
    UNION {{ScopeHead \o Concat([i \in 1..n |-> Writeln(ls[i])]) : ls \in [1..n -> ScopeLines]} :
              n \in 0..MaxScopeLines}

InitScoping ==
    /\ IdleExcept("sdp")
    /\ sdpModel = None /\ sdpText \in ScopeTexts
    /\ sdpPhase = "text"
    /\ sdpLines = <<>> /\ sdpFields = <<>> /\ sdpResult = "None" /\ sdpParsed = None

NextScoping == ParseBegin \/ ParseLine \/ ParseEnd
SpecScoping == InitScoping /\ [][NextScoping]_vars

\* the lines that parse has read so far
LinesRead == Take(Lines(sdpText), Len(Lines(sdpText)) - Len(sdpLines))
IsLine(line, prefix) == Take(line, 2) = prefix
\* the number of m= lines among the first i lines: the scope line i belongs to,
\* 0 being the session
MediaBefore(ls, i) == Cardinality({j \in 1..i : IsLine(ls[j], <<109, 61>>)})
\* the values (the text after the prefix) of the lines with a prefix, in order:
\* those of one scope, and those after line number from up to line number to
Indexes(ls) == [i \in 1..Len(ls) |-> i]
ValuesOf(ls, picked) == [n \in 1..Len(picked) |-> Drop(ls[picked[n]], 2)]
InScope(ls, k, prefix) ==
    ValuesOf(ls, SelectSeq(Indexes(ls), LAMBDA i : IsLine(ls[i], prefix) /\ MediaBefore(ls, i) = k))
Between(ls, from, to, prefix) ==
    ValuesOf(ls, SelectSeq(Indexes(ls), LAMBDA i : IsLine(ls[i], prefix) /\ from < i /\ i <= to))
LastValue(values) == IF values = <<>> THEN None ELSE Some(values[Len(values)])
\* where the r= lines are, and where the reach of the n-th of them ends
RepeatLines(ls) == SelectSeq(Indexes(ls), LAMBDA i : IsLine(ls[i], <<114, 61>>))
ReachOf(ls, n) == IF n < Len(RepeatLines(ls)) THEN RepeatLines(ls)[n + 1] ELSE Len(ls)

\* what the lines ls leave in the scope owner, number k
ScopeHolds(owner, title, ls, k) ==
    /\ title = LastValue(InScope(ls, k, <<105, 61>>))
    /\ owner.connection =
          Let(LastValue(InScope(ls, k, <<99, 61>>)), LAMBDA c :
              IF c = None THEN None ELSE Some(ConnectionFromStr(Unwrap(c)).value))
    /\ owner.bandwidth =
          Let(InScope(ls, k, <<98, 61>>), LAMBDA b :
              [n \in 1..Len(b) |-> BandwidthFromStr(b[n]).value])
    /\ owner.attributes =
          Let(InScope(ls, k, <<97, 61>>), LAMBDA a :
              [n \in 1..Len(a) |-> AttributeFromStr(a[n]).value])

\* the fields built from the lines ls: one media item for each m= line, every
\* scope holding its own lines, and the session holding all the timing lines
Scoped(fields, ls) ==
    /\ Len(fields.media) = MediaBefore(ls, Len(ls))
    /\ ScopeHolds(fields, fields.session_description, ls, 0)
    /\ \A k \in 1..Len(fields.media) :
          ScopeHolds(fields.media[k], fields.media[k].title, ls, k)
    /\ fields.time_active =
          Let(Between(ls, 0, Len(ls), <<116, 61>>), LAMBDA t :
              [n \in 1..Len(t) |-> TimeActiveFromStr(t[n]).value])
    /\ fields.repeats =
          [n \in 1..Len(RepeatLines(ls)) |->
              Repeat(RepeatTimesFromStr(Drop(ls[RepeatLines(ls)[n]], 2)).value,
                     Let(LastValue(Between(ls, RepeatLines(ls)[n], ReachOf(ls, n), <<122, 61>>)), LAMBDA z :
                         IF z = None THEN None
                         ELSE Some(TimeZoneAdjustmentsFromStr(Unwrap(z)).value)))]

\* C32: while Sdp::parse reads the lines, and in the Sdp it returns, every i=, c=,
\* b= and a= line is held by the session when no m= line came before it and
\* otherwise by the media item of the last m= line before it, and by nothing
\* else; the t=, r= and z= lines are all held by the session
C32_LineScoping ==
    /\ sdpPhase = "parsing" => Scoped(sdpFields, LinesRead)
    /\ sdpParsed # None => Scoped(Unwrap(sdpParsed), Lines(sdpText))

\* a description was returned in which the second media item holds an attribute and
\* the first one none
C32_Witness ==
    /\ sdpPhase = "parsing" /\ sdpLines = <<>>
    /\ Len(sdpFields.media) = 2
    /\ sdpFields.media[1].attributes = <<>>
    /\ sdpFields.media[2].attributes # <<>>
    /\ sdpFields.attributes = <<>>

-----------------------------------------------------------------------------
(* Redirect handling of Client::request: a server that redirects with every *)
(* kind of Location, or answers 200.                                        *)

RedirectingKinds ==
    {"ok", "redirect", "redirectNoLocation", "redirectBadLocation", "redirectFragment"}
AnyRedirectReply ==
    \E kind \in RedirectingKinds :
        /\ IsRedirectKind(kind) => redirects < MaxRedirectReplies
        /\ ServerReply(kind)
NextRedirects == Options \/ Describe \/ SendRequest \/ AnyRedirectReply \/ ReadReply
SpecRedirects == InitClient /\ [][NextRedirects]_vars

\* the request that follows another one within a call: same method, same headers
\* but for the CSeq value, and the client's URI as it stands
Retries(request, previous) ==
    /\ request.method = previous.method
    /\ DOMAIN request.headers = DOMAIN previous.headers
    /\ request.uri = ConnectUri.scheme \o <<58, 47, 47>> \o ConnectUri.authority \o self_uri.path
    /\ request.body = previous.body /\ request.version = previous.version
\* the step in which request_without_redirect_handling writes a request
WritesRequest == Len(wire') = Len(wire) + 1
RetryStep ==
    (WritesRequest /\ sentInCall > 0) => Retries(wire'[Len(wire')], wire[Len(wire)])
\* the call goes on to its next request, or has used up its 20 requests
GoesOn ==
    \/ phase' = "Send" /\ result' = result
    \/ phase' = "Idle" /\ result' = "MaximumNumberOfRedirectsReached"
\* the call ends with InvalidRedirect and the URI is left as it was
GivesUp ==
    /\ phase' = "Idle" /\ result' = "InvalidRedirect"
    /\ wire' = wire /\ self_uri' = self_uri
\* a 3xx response is read: what the step does with the Location value, part standing
\* for the part of a parseable value that becomes the path-and-query
RedirectStep(Part(_)) ==
    ReadsItem =>
        \A item \in {Head(inbound)} :
            (item.kind = "response" /\ item.status \in 300..399) =>
                \A location \in {HeadersGet(item.headers, H_Location)} :
                    IF IsSome(location) /\ IsSome(PathAndQueryParse(Unwrap(location)))
                    THEN /\ self_uri' = [scheme |-> self_uri.scheme,
                                         authority |-> self_uri.authority,
                                         path |-> Part(Unwrap(location))]
                         /\ callMethod' = callMethod
                         /\ GoesOn
                    ELSE GivesUp
WholeValue(location) == location
UpToFragment(location) ==
    IF IndexOf(location, 35) = 0 THEN location ELSE Take(location, IndexOf(location, 35) - 1)

\* C33 as stated: on a 3xx reply with a parseable Location the next request of the call
\* has the same method and headers and the URI with its path-and-query replaced by the
\* Location value; on a 3xx reply whose Location is missing or does not parse the call
\* returns InvalidRedirect, sends nothing more and leaves the URI as it was
C33_RedirectStep == RedirectStep(WholeValue) /\ RetryStep
C33_Redirect == [][C33_RedirectStep]_vars

\* C33 amended: the same, the path-and-query being replaced by the Location value up
\* to, and not including, its first '#'
C33_AmendedStep == RedirectStep(UpToFragment) /\ RetryStep
C33_RedirectAmended == [][C33_AmendedStep]_vars

\* a describe call was redirected to a Location with a fragment, sent its second
\* request to the path and query of that Location, and was then redirected without
\* a Location
C33_Witness ==
    /\ phase = "Idle" /\ result = "InvalidRedirect" /\ callMethod = "Describe"
    /\ sentInCall = 2 /\ Len(wire) = 2
    /\ self_uri.path = <<47, 114, 63, 113>>
    /\ wire[2].uri = <<114, 116, 115, 112, 58, 47, 47, 104, 47, 114, 63, 113>> /\ wire[2].method = "Describe"

-----------------------------------------------------------------------------
(* Body and Content-Length of the messages the parser returns.              *)

\* the value of the Content-Length header of a message, None without the header
ContentLengthOf(m) ==
    IF H_ContentLength \in DOMAIN m.headers THEN ParseUsize(m.headers[H_ContentLength])
    ELSE None

\* C34 -- Body and Content-Length.  Every message obtained from into_message has a body
\* exactly when its headers hold Content-Length with a non-zero value, and the body is
\* then as long as that value says; a message without Content-Length or with
\* Content-Length 0 has no body; every Done comes at the end of the body, or at the
\* blank line when there is none.
C34_BodyAndContentLength ==
    /\ \A j \in 1..Len(output) :
          /\ IsSome(output[j].body) <=>
                (ContentLengthOf(output[j]) # None /\ ContentLengthOf(output[j]) # Some(0))
          /\ IsSome(output[j].body) =>
                Some(Len(Unwrap(output[j].body))) = ContentLengthOf(output[j])
    /\ \A j \in 1..Len(doneAt) : doneAt[j] = EndOffset(expected, j)

-----------------------------------------------------------------------------
(* rave_rtp: FU-A runs on a lossy path.  A sender fragments one NAL unit    *)
(* after the other; each fragment reaches the depacketizer or is lost.      *)

MaxSent == 5

\* an FU-A packet of the sender: indicator (nal_ref_idc 3, type 28), FU header, and
\* one byte of data that tells the run and the position of the fragment in its run
RunFragment(header, run, position) == <<124, header, 16 * run + position>>
RunOf(byte) == byte \div 16
PositionIn(byte) == byte % 16
\* the number of runs the sender has started
RunsStarted == Cardinality({i \in 1..Len(packets) : BitAnd(packets[i].payload[2], 128) > 0})

InitLossy ==
    /\ mode = 1
    /\ mtu = 0
    /\ seqNo = 0
    /\ au = <<>>
    /\ auTimestamp = 0
    /\ pktResult = "None"
    /\ packets = <<>>
    /\ fragBuf = None
    /\ fed = 0
    /\ nals = <<>>
    /\ depResult = "None"
    /\ IdleExcept("h264")

\* the sender sends a fragment; au holds the fragments of the run that is open at the
\* sender; a fragment that is not lost is given to depacketizer.depacketize(&packet)
SendFragment(payload, closes, lost) ==
    /\ Len(packets) < MaxSent
    /\ packets' = Append(packets, [payload |-> payload, lost |-> lost])
    /\ au' = IF closes THEN <<>> ELSE Append(au, payload)
    /\ IF lost
       THEN UNCHANGED <<fragBuf, nals, depResult, fed>>
       ELSE /\ \E r \in {H264Depacketize(fragBuf, payload)} :
                  /\ fragBuf' = r.buf
                  /\ nals' = nals \o r.nals
                  /\ depResult' = IF r.err = "" THEN "Ok" ELSE r.err
            /\ fed' = fed + 1
    /\ UNCHANGED <<mode, mtu, seqNo, auTimestamp, pktResult>>
    /\ UnchangedExcept("h264")

SendStart ==
    /\ au = <<>>
    /\ \E lost \in BOOLEAN : SendFragment(RunFragment(128 + 5, RunsStarted + 1, 1), FALSE, lost)
SendMiddle ==
    /\ au # <<>>
    /\ \E lost \in BOOLEAN : SendFragment(RunFragment(5, RunsStarted, Len(au) + 1), FALSE, lost)
SendEnd ==
    /\ au # <<>>
    /\ \E lost \in BOOLEAN : SendFragment(RunFragment(64 + 5, RunsStarted, Len(au) + 1), TRUE, lost)

NextLossy == SendStart \/ SendMiddle \/ SendEnd
SpecLossy == InitLossy /\ [][NextLossy]_vars

\* a reassembled NAL unit is made of fragments of one run: after the header byte
\* comes the data of the start fragment of a run and then data of later fragments of
\* that same run, in order
OfOneRun(unit) ==
    /\ Len(unit) >= 2
    /\ PositionIn(unit[2]) = 1
    /\ \A i \in 3..Len(unit) :
          RunOf(unit[i]) = RunOf(unit[2]) /\ PositionIn(unit[i]) > PositionIn(unit[i - 1])

\* C35 -- FU-A runs are never mixed.  Whatever fragments are lost and whatever calls
\* returned a fragmented-state error, every NAL unit the depacketizer emits from FU-A
\* reassembly holds the start fragment of one run followed by fragments of that same
\* run, and no fragment of an earlier or later run.
C35_NoMixedRuns == \A n \in 1..Len(nals) : OfOneRun(nals[n])

-----------------------------------------------------------------------------
(* rave_rtsp: Encoder for Codec (tokio.rs): items encoded one after the     *)
(* other into the buffer of the outgoing stream.                            *)

MaxEncoded == 2

\* what a client and what a server may be given to send
EncodeRequests ==
    {Request(m, <<114, 116, 115, 112, 58, 47, 47, 104, 47, 109>>, v, HeadersInsert(EmptyHeaders, H_CSeq, <<49>>), None) :
        m \in {"Options", "Setup"}, v \in {"V1", "Unknown"}}
EncodeResponses ==
    {Response(v, s, <<79, 75>>, HeadersInsert(EmptyHeaders, H_CSeq, <<49>>), None) :
        v \in {"V2", "Unknown"}, s \in {200, 404}}
EncodeFrames == {Interleaved(1, FramePayload(len)) : len \in {1, 65536}}
EncodeRuns ==
    UNION {[1..n -> EncodeRequests \cup EncodeFrames] \cup [1..n -> EncodeResponses \cup EncodeFrames] :
              n \in 1..MaxEncoded}

\* stream is the destination buffer dst, delivered the number of items encoded
InitEncode ==
    /\ expected \in EncodeRuns
    /\ stream = <<>>
    /\ delivered = 0
    /\ buffer = <<>>
    /\ parser = NewParser
    /\ codec = NewCodec
    /\ output = <<>>
    /\ lastStatus = "None"
    /\ pending = FALSE
    /\ doneAt = <<>>
    /\ split = FALSE
    /\ IdleExcept("rtsp")

\* codec.encode(item, &mut dst)
Encode ==
    /\ delivered < Len(expected)
    /\ \E r \in {SerializeInto(stream, expected[delivered + 1])} :
           /\ stream' = r.dst
           /\ lastStatus' = IF r.err = "" THEN "Ok" ELSE r.err
    /\ delivered' = delivered + 1
    /\ UNCHANGED <<expected, buffer, parser, codec, output, pending, doneAt, split>>
    /\ UnchangedExcept("rtsp")

NextEncode == Encode
SpecEncode == InitEncode /\ [][NextEncode]_vars

\* C36 -- Serialization is all-or-nothing.  When serialize of a request, a response or
\* an interleaved frame returns an error, the destination buffer holds exactly the
\* bytes it held before the call.
C36_EncodeStep ==
    (delivered' = delivered + 1 /\ lastStatus' \in {"VersionUnknown", "InterleavedPayloadTooLarge"})
        => stream' = stream
C36_AllOrNothing == [][C36_EncodeStep]_vars

-----------------------------------------------------------------------------
(* rave_rtsp: a parser that is used on after parse returned an error        *)
(* (parse.rs): a malformed request, then well-formed ones, on one stream.   *)

\* a request with a header line that has no colon, and one with a bad first line
MalformedHeads ==
    {<<79, 80, 84, 73, 79, 78, 83, 32, 114, 116, 115, 112, 58, 47, 47, 104, 47, 109, 32, 82, 84, 83, 80, 47, 49, 46, 48, 13, 10, 83, 101, 115, 115, 105, 111, 110, 58, 32, 55, 13, 10, 98, 97, 100, 13, 10, 13, 10>>,
     <<66, 79, 71, 85, 83, 13, 10, 83, 101, 115, 115, 105, 111, 110, 58, 32, 55, 13, 10, 13, 10>>}

\* expected holds the well-formed requests that follow the malformed one
InitLeak ==
    /\ expected \in {<<m>> : m \in {ReqOptions, ReqPlay}}
    /\ stream \in {bad \o StreamOf(expected) : bad \in MalformedHeads}
    /\ delivered = 0
    /\ buffer = <<>>
    /\ parser = NewParser
    /\ codec = NewCodec
    /\ output = <<>>
    /\ lastStatus = "None"
    /\ pending = FALSE
    /\ doneAt = <<>>
    /\ split = FALSE
    /\ IdleExcept("rtsp")

\* the caller calls parse again on the same parser after an error
ParseAfterError == ~pending /\ lastStatus \notin {"None", "Hungry", "Done"} /\ CallParse

NextLeak == AppendChunk \/ ParseAfterChunk \/ ParseAfterError
SpecLeak == InitLeak /\ [][NextLeak]_vars

\* the first line and the headers of a message are those of one of the well-formed
\* requests of the stream
OfLaterMessage(m) ==
    \E i \in 1..Len(expected) :
        /\ m.method = expected[i].method /\ m.uri = expected[i].uri
        /\ m.version = expected[i].version
        /\ m.headers = expected[i].headers

\* C37 -- No state leaks out of a failed parse.  A message that a parser completes
\* after one of its parse calls returned an error holds the first line and the header
\* lines of a message that came after the malformed one, and nothing that was parsed
\* from the malformed one.
C37_NoLeak == \A j \in 1..Len(output) : OfLaterMessage(output[j])

-----------------------------------------------------------------------------
(* The session of the client.                                               *)

\* C38 -- The client never acquires a session.  In every state reached through
\* connect, options, describe, redirects and errors the session field of the Client
\* is None and no request written to the connection carries a Session header, also
\* after a response that carried one.
C38_NoSession ==
    /\ session = None
    /\ \A n \in 1..Len(wire) : HeadersGet(wire[n].headers, H_Session) = None

\* the second call has read a response with a Session header, as the first one had,
\* and its request went out without one
C38_Witness ==
    /\ calls = 2 /\ phase = "Idle" /\ result = "Ok" /\ Len(wire) = 2
    /\ IsSome(response)
    /\ HeadersGet(Unwrap(response).headers, H_Session) = Some(<<115>>)
    /\ DOMAIN wire[2].headers = {H_CSeq}

-----------------------------------------------------------------------------
(* rave_h264: split_nals_annex_b (nal_utils.rs).                            *)

MaxAnnexB == 8
MaxPushed == 4

NAL_HEADER_1 == <<0, 0, 1>>
NAL_HEADER_2 == <<0, 0, 0, 1>>

\* first_offset: 0 stands for Err(H264AnnexBStartCodeMissing)
FirstOffset(data) ==
    IF Len(data) >= 3 /\ SubSeq(data, 1, 3) = NAL_HEADER_1 THEN 3
    ELSE IF Len(data) >= 4 /\ SubSeq(data, 1, 4) = NAL_HEADER_2 THEN 4
    ELSE 0

\* fn next, from round i of its loop on: it splits data behind a start code and
\* returns what was in front of it ("split"), returns a clone of data and leaves
\* data as it is ("whole"), or panics on data[i..i + 4] with i + 4 > data.len()
RECURSIVE NextFrom(_, _)
NextFrom(data, i) ==
    IF i >= Len(data) THEN [outcome |-> "whole", nal |-> data, rest |-> data]
    ELSE IF Len(data) - i >= 3 /\ SubSeq(data, i + 1, i + 3) = NAL_HEADER_1
    THEN [outcome |-> "split", nal |-> Take(data, i), rest |-> Drop(data, i + 3)]
    ELSE IF Len(data) - 1 >= 4
    THEN IF i + 4 > Len(data) THEN [outcome |-> "panic", nal |-> <<>>, rest |-> data]
         ELSE IF SubSeq(data, i + 1, i + 4) = NAL_HEADER_2
         THEN [outcome |-> "split", nal |-> Take(data, i), rest |-> Drop(data, i + 4)]
         ELSE NextFrom(data, i + 1)
    ELSE NextFrom(data, i + 1)

\* the data given to the function: every string of up to MaxAnnexB bytes 0, 1 and 9
AnnexBInputs == UNION {[1..n -> {0, 1, 9}] : n \in 0..MaxAnnexB}

InitAnnexB ==
    /\ abInput \in AnnexBInputs
    /\ abData = abInput
    /\ abNals = <<>>
    /\ abState = "Called"
    /\ abResult = "None"
    /\ IdleExcept("annexb")

\* the start code at the head of data is looked for and cut off
CutFirstStartCode ==
    /\ abState = "Called"
    /\ IF FirstOffset(abData) = 0
       THEN /\ abState' = "Returned" /\ abResult' = "H264AnnexBStartCodeMissing"
            /\ UNCHANGED abData
       ELSE /\ abData' = Drop(abData, FirstOffset(abData))
            /\ abState' = "Looping"
            /\ UNCHANGED abResult
    /\ UNCHANGED <<abInput, abNals>>
    /\ UnchangedExcept("annexb")

\* one round of `while !data.is_empty() { nals.push(next(&mut data)) }`; the model
\* follows a loop that does not end for MaxPushed rounds
PushNext ==
    /\ abState = "Looping" /\ abData # <<>> /\ Len(abNals) < MaxPushed
    /\ \E r \in {NextFrom(abData, 0)} :
          IF r.outcome = "panic"
          THEN abState' = "Panicked" /\ UNCHANGED <<abData, abNals>>
          ELSE /\ abNals' = Append(abNals, r.nal)
               /\ abData' = r.rest
               /\ UNCHANGED abState
    /\ UNCHANGED <<abInput, abResult>>
    /\ UnchangedExcept("annexb")

\* data is empty: Ok(nals)
ReturnNals ==
    /\ abState = "Looping" /\ abData = <<>>
    /\ abState' = "Returned" /\ abResult' = "Ok"
    /\ UNCHANGED <<abInput, abData, abNals>>
    /\ UnchangedExcept("annexb")

NextAnnexB == CutFirstStartCode \/ PushNext \/ ReturnNals
\* the function runs on as long as it has a step to take
SpecAnnexB == InitAnnexB /\ [][NextAnnexB]_vars /\ WF_vars(NextAnnexB)

\* where a start code begins in data, and the units between the start codes of data:
\* what lies in front of the first start code, then the units of what follows it
StartCodeAt(data, i) ==
    \/ i + 2 <= Len(data) /\ SubSeq(data, i, i + 2) = NAL_HEADER_1
    \/ i + 3 <= Len(data) /\ SubSeq(data, i, i + 3) = NAL_HEADER_2
RECURSIVE UnitsBetween(_)
UnitsBetween(data) ==
    IF data = <<>> THEN <<>>
    ELSE Let({i \in 1..Len(data) : StartCodeAt(data, i)}, LAMBDA at :
             IF at = {} THEN <<data>>
             ELSE Let(CHOOSE i \in at : \A j \in at : i <= j, LAMBDA i :
                      <<Take(data, i - 1)>>
                      \o UnitsBetween(Drop(data, IF SubSeq(data, i, i + 2) = NAL_HEADER_1
                                                 THEN i + 2 ELSE i + 3))))

\* the function has returned what the claim says for data that begins with a start
\* code: the units in order, the last one included, and nothing is left of data
SplitsAll ==
    (abState = "Returned" /\ FirstOffset(abInput) # 0) =>
        /\ abResult = "Ok"
        /\ abNals = UnitsBetween(Drop(abInput, FirstOffset(abInput)))
        /\ abData = <<>>

\* C39 -- Annex B splitting terminates.  split_nals_annex_b returns for every input,
\* and for data that begins with a 3-byte or 4-byte start code it returns the NAL
\* units between consecutive start codes in order, the last one (followed by no
\* start code) included, and consumes the whole input.
C39_AnnexBSplitting ==
    /\ [](abState # "Panicked")
    /\ <>(abState = "Returned")
    /\ []SplitsAll

-----------------------------------------------------------------------------
(* The first byte of a serialized RTP header.                               *)

\* the fields read off the first byte of the header: V (2 bits), P, X, CC (4 bits)
VersionBits(byte) == Shr8(byte, 6)
PaddingBit(byte) == BitAnd(Shr8(byte, 5), 1)
ExtensionBit(byte) == BitAnd(Shr8(byte, 4), 1)
CsrcCountBits(byte) == BitAnd(byte, 15)

\* C40 -- RTP header bit fields are never corrupted on serialize.  In the first byte
\* that Header::serialize writes, the version, padding and extension bits are those of
\* the header and the low four bits are the number of CSRC words written after the
\* fixed header; a header with more than 15 CSRC entries is refused with
\* CsrcCountInvalid.
C40_HeaderBits ==
    rtpStep # "new" =>
        IF Len(rtpHeader.csrc) > 15 THEN rtpSerialized = "CsrcCountInvalid"
        ELSE /\ rtpSerialized = "Ok"
             /\ VersionBits(rtpBytes[1]) = VersionAsNumber(rtpHeader.version)
             /\ PaddingBit(rtpBytes[1]) = (IF rtpHeader.padding THEN 1 ELSE 0)
             /\ ExtensionBit(rtpBytes[1]) = (IF IsSome(rtpHeader.extension) THEN 1 ELSE 0)
             /\ CsrcCountBits(rtpBytes[1]) = Len(rtpHeader.csrc)
             /\ Len(rtpBytes) >= 12 + 4 * Len(rtpHeader.csrc)
             /\ GetU32s(Drop(rtpBytes, 12), Len(rtpHeader.csrc)) = rtpHeader.csrc

====
